---- MODULE Spec2Model ----
(***************************************************************************)
(* LineageAtlas: the GEDCOM tokenizer (parseGedcom), the in-memory store   *)
(* (MemStorage) and the two upload handlers (POST /api/upload/gedcom and   *)
(* POST /api/upload/csv) with the geocoder they await, the client's CSV    *)
(* reader (parseCsv) and the narrative builder (generateStoryFromEvents),  *)
(* the collection routes with their insert schemas, the calls of           *)
(* MemStorage, and the home page with the effects of MapView and the       *)
(* story buttons of StoryPanel.                                            *)
(*                                                                         *)
(* A JavaScript string is a sequence of one-character strings, so that     *)
(* split, trim, includes, replace and parseInt are computed on the text.   *)
(* undefined and null are the two one-element sequences below, which no    *)
(* text equals.  A nullable object reference is a sequence of length 0     *)
(* (null) or 1 (the object).                                               *)
(***************************************************************************)
EXTENDS Integers, Sequences, FiniteSets, TLC

\* ------------------------------------------------------------------------
\* Bounds of the model
\* ------------------------------------------------------------------------
MaxLines == 4
MaxRecords == 2
MaxConcRecords == 1
\* data lines of a CSV text read by parseCsv
MaxCsvRows == 2
\* events handed to generateStoryFromEvents
MaxEvents == 3
\* records of a file whose upload is followed to its response
MaxLiveRecords == 1
\* entities created through the collection routes
MaxPosts == 2
\* locations and stories the queries of the home page return
MaxLocations == 2
MaxStories == 3
\* entities created by direct calls of MemStorage
MaxEntities == 2

\* ------------------------------------------------------------------------
\* JavaScript values and string primitives
\* ------------------------------------------------------------------------
Undefined == <<"undefined">>
Null == <<"null">>
NaN == <<>>

\* JS truthiness of a string-or-absent value
Truthy(v) == v # Undefined /\ v # Null /\ v # <<>>

\* a || b
OrElse(a, b) == IF Truthy(a) THEN a ELSE b

IsSpace(ch) == ch \in {" ", "\t", "\r", "\n"}

RECURSIVE TrimStart(_)
TrimStart(s) ==
  IF s # <<>> /\ IsSpace(Head(s)) THEN TrimStart(Tail(s)) ELSE s

RECURSIVE TrimEnd(_)
TrimEnd(s) ==
  IF s # <<>> /\ IsSpace(s[Len(s)]) THEN TrimEnd(SubSeq(s, 1, Len(s) - 1)) ELSE s

\* String.prototype.trim
Trim(s) == TrimEnd(TrimStart(s))

\* the first index >= from at which sep occurs in s, 0 when there is none
IndexOf(s, sep, from) ==
  LET hits == {i \in from..(Len(s) - Len(sep) + 1) : SubSeq(s, i, i + Len(sep) - 1) = sep}
  IN IF hits = {} THEN 0 ELSE CHOOSE i \in hits : \A k \in hits : i <= k

RECURSIVE SplitFrom(_, _, _)
SplitFrom(s, sep, from) ==
  LET m == IndexOf(s, sep, from)
  IN IF m = 0 THEN <<SubSeq(s, from, Len(s))>>
     ELSE <<SubSeq(s, from, m - 1)>> \o SplitFrom(s, sep, m + Len(sep))

\* String.prototype.split with a non-empty string separator
Split(s, sep) == SplitFrom(s, sep, 1)

RECURSIVE Join(_, _)
\* Array.prototype.join
Join(parts, sep) ==
  IF parts = <<>> THEN <<>>
  ELSE IF Len(parts) = 1 THEN parts[1]
  ELSE parts[1] \o sep \o Join(Tail(parts), sep)

\* String.prototype.startsWith
StartsWith(s, pre) == Len(s) >= Len(pre) /\ SubSeq(s, 1, Len(pre)) = pre

\* String.prototype.includes
Includes(s, sub) ==
  \E i \in 0..(Len(s) - Len(sub)) : SubSeq(s, i + 1, i + Len(sub)) = sub

\* Array.prototype.map(line => line.trim())
TrimAll(s) == [k \in 1..Len(s) |-> Trim(s[k])]

NonEmpty(s) == s # <<>>

HexLower == <<"0", "1", "2", "3", "4", "5", "6", "7", "8", "9", "a", "b", "c", "d", "e", "f">>
HexUpper == <<"0", "1", "2", "3", "4", "5", "6", "7", "8", "9", "A", "B", "C", "D", "E", "F">>

IsDigit(ch, radix) == \E d \in 1..radix : HexLower[d] = ch \/ HexUpper[d] = ch
DigitVal(ch) == (CHOOSE d \in 1..Len(HexLower) : HexLower[d] = ch \/ HexUpper[d] = ch) - 1

RECURSIVE ParseDigits(_, _, _, _)
ParseDigits(s, radix, acc, seen) ==
  IF s # <<>> /\ IsDigit(Head(s), radix)
  THEN ParseDigits(Tail(s), radix, acc * radix + DigitVal(Head(s)), TRUE)
  ELSE IF seen THEN <<acc>> ELSE NaN

\* parseInt(s): leading white space, a sign, a 0x prefix, then the longest
\* run of digits; NaN (the empty sequence) when there is none, <<n>> otherwise.
ParseInt(s) ==
  LET t == TrimStart(s)
      neg == t # <<>> /\ Head(t) = "-"
      u == IF t # <<>> /\ Head(t) \in {"+", "-"} THEN Tail(t) ELSE t
      hex == Len(u) >= 2 /\ u[1] = "0" /\ u[2] \in {"x", "X"}
      r == IF hex THEN ParseDigits(SubSeq(u, 3, Len(u)), 16, 0, FALSE)
           ELSE ParseDigits(u, 10, 0, FALSE)
  IN IF r = NaN THEN NaN ELSE IF neg THEN <<0 - r[1]>> ELSE r

\* mutant: only the first "/" is removed
StripSlashes_First(s) ==
  IF \E k \in 1..Len(s) : s[k] = "/"
  THEN LET k == CHOOSE i \in 1..Len(s) : s[i] = "/" /\ \A j \in 1..(i - 1) : s[j] # "/"
       IN SubSeq(s, 1, k - 1) \o SubSeq(s, k + 1, Len(s))
  ELSE s

\* value.replace(/\//g, '')
StripSlashes(s) == SelectSeq(s, LAMBDA ch : ch # "/")

\* ------------------------------------------------------------------------
\* Literals of the source
\* ------------------------------------------------------------------------
S_INDI == <<"I", "N", "D", "I">>
S_FAM == <<"F", "A", "M">>
S_NAME == <<"N", "A", "M", "E">>
S_BIRT == <<"B", "I", "R", "T">>
S_DEAT == <<"D", "E", "A", "T">>
S_RESI == <<"R", "E", "S", "I">>
S_NOTE == <<"N", "O", "T", "E">>
S_HUSB == <<"H", "U", "S", "B">>
S_WIFE == <<"W", "I", "F", "E">>
S_CHIL == <<"C", "H", "I", "L">>
S_MARR == <<"M", "A", "R", "R">>
S_DATE == <<"D", "A", "T", "E">>
S_PLAC == <<"P", "L", "A", "C">>
S_birth == <<"b", "i", "r", "t", "h">>
S_death == <<"d", "e", "a", "t", "h">>
S_residence == <<"r", "e", "s", "i", "d", "e", "n", "c", "e">>
S_migration == <<"m", "i", "g", "r", "a", "t", "i", "o", "n">>
S_marriage == <<"m", "a", "r", "r", "i", "a", "g", "e">>

\* ------------------------------------------------------------------------
\* Input texts of the tokenizer
\* ------------------------------------------------------------------------
L_INDI1 == <<"0", " ", "I", "N", "D", "I", "1">>
L_INDI2 == <<" ", "0", " ", "I", "N", "D", "I", "2", " ">>
L_FAM1 == <<"0", " ", "F", "A", "M", "1">>
L_XREF == <<"0", " ", "@", "I", "1", "@", " ", "I", "N", "D", "I">>
L_TRLR == <<"0", " ", "T", "R", "L", "R">>
L_ZERO == <<"0">>
L_BADLEVEL == <<"x", " ", "N", "O", "T", "E", " ", "n">>
L_BIRT == <<"1", " ", "B", "I", "R", "T">>
L_DEAT == <<"1", " ", "D", "E", "A", "T">>
L_DATE == <<"2", " ", "D", "A", "T", "E", " ", "1", "9", "0", "0">>
L_PLAC == <<"2", " ", "P", "L", "A", "C", " ", "B", "o", "s", "t", "o", "n">>
L_NAME == <<"1", " ", "N", "A", "M", "E", " ", "J", "o", "h", "n", " ", "/", "S", "m", "i", "t", "h", "/">>
L_HUSB == <<"1", " ", "H", "U", "S", "B", " ", "@", "I", "1", "@">>
L_WIFE == <<"1", " ", "W", "I", "F", "E", " ", "@", "I", "2", "@">>
L_CHIL1 == <<"1", " ", "C", "H", "I", "L", " ", "@", "I", "3", "@">>
L_CHIL2 == <<"1", " ", "C", "H", "I", "L", " ", "@", "I", "4", "@">>
L_MARR == <<"1", " ", "M", "A", "R", "R">>

\* level-0 structure: individuals, families, other records, malformed lines
StructLines == {L_INDI1, L_INDI2, L_FAM1, L_XREF, L_TRLR, L_ZERO, L_BADLEVEL, <<>>}
\* events of one record
EventLines == {L_INDI1, L_FAM1, L_NAME, L_BIRT, L_DEAT, L_MARR, L_DATE, L_PLAC}

\* the members of one family
FamLines == {L_FAM1, L_INDI1, L_HUSB, L_WIFE, L_CHIL1, L_CHIL2}

LineFamilies == {StructLines, EventLines, FamLines}

\* the texts of at most maxLines lines over one family of lines
GedcomTexts(maxLines) ==
  UNION { { Join(f, <<"\n">>) : f \in [1..n -> F] } :
            <<n, F>> \in (0..maxLines) \X LineFamilies }

VARIABLES
  \* parseGedcom: its argument, its locals and its position
  gedcomText, lines, lineIdx, currentContext, currentIndividual,
  currentFamily, currentEvent, individuals, families, events, pc,
  \* the server: the MemStorage singleton, the UUIDs handed out so far, the
  \* upload requests in progress and the calls the geocoder has received
  storage, uuidCount, uploads, geoCalls,
  \* the client's parseCsv: its argument, its result and its position
  csvText, csvIndividuals, csvPc,
  \* generateStoryFromEvents: its arguments, its result and its position
  storyArgs, story, storyPc,
  \* parseGedcomData called on the text parseGedcom was given: its result
  gedcomData,
  \* calls of MemStorage and of the collection routes: the clock new Date()
  \* reads, the latest call with its result, and what became of each id
  now, lastCall, ledger,
  \* the home page: Home's state and query data, MapView's refs and state
  layerVisibility, timelineYear, homeLocations, stories, currentStoryIndex,
  leaflet, mapInstance, isMapLoaded, markersRef, mapLayers

parseVars == <<gedcomText, lines, lineIdx, currentContext, currentIndividual,
               currentFamily, currentEvent, individuals, families, events, pc,
               gedcomData>>

serverVars == <<storage, uuidCount, uploads, geoCalls>>

csvVars == <<csvText, csvIndividuals, csvPc>>

storyVars == <<storyArgs, story, storyPc>>

apiVars == <<now, lastCall, ledger>>

clientVars == <<layerVisibility, timelineYear, homeLocations, stories,
                currentStoryIndex, leaflet, mapInstance, isMapLoaded,
                markersRef, mapLayers>>

vars == <<parseVars, serverVars, csvVars, storyVars, apiVars, clientVars>>

\* ------------------------------------------------------------------------
\* parseGedcom
\* ------------------------------------------------------------------------
\* const lines = gedcomText.split('\n').map(line => line.trim()).filter(line => line)
GedcomLines(text) == SelectSeq(TrimAll(Split(text, <<"\n">>)), NonEmpty)

LineParts(line) == Split(line, <<" ">>)
LineLevel(line) == ParseInt(LineParts(line)[1])
LineTag(line) == IF Len(LineParts(line)) >= 2 THEN LineParts(line)[2] ELSE Undefined
LineValue(line) == Join(SubSeq(LineParts(line), 3, Len(LineParts(line))), <<" ">>)

NewIndividual(tag) ==
  [id |-> tag, name |-> <<>>, birthDate |-> Undefined, deathDate |-> Undefined,
   birthPlace |-> Undefined, deathPlace |-> Undefined, notes |-> Undefined,
   events |-> <<>>]

NewFamily(tag) ==
  [id |-> tag, husband |-> Undefined, wife |-> Undefined, children |-> <<>>,
   marriageDate |-> Undefined, marriagePlace |-> Undefined]

NewEvent(type) ==
  [type |-> type, date |-> Undefined, place |-> Undefined, description |-> Undefined]

\* if (currentIndividual && currentIndividual.id) individuals.push(currentIndividual)
FlushIndividual(st) ==
  IF st.currentIndividual # <<>> /\ Truthy(st.currentIndividual[1].id)
  THEN Append(st.individuals, st.currentIndividual[1]) ELSE st.individuals

\* if (currentFamily && currentFamily.id) families.push(currentFamily)
FlushFamily(st) ==
  IF st.currentFamily # <<>> /\ Truthy(st.currentFamily[1].id)
  THEN Append(st.families, st.currentFamily[1]) ELSE st.families

\* the level === 0 branch; tag.includes throws a TypeError when tag is undefined
Level0(st, tag) ==
  LET flushed == [st EXCEPT !.individuals = FlushIndividual(st),
                            !.families = FlushFamily(st)]
  IN IF tag = Undefined THEN [flushed EXCEPT !.threw = TRUE]
     ELSE IF Includes(tag, S_INDI)
       THEN [flushed EXCEPT !.currentContext = "individual",
                            !.currentIndividual = <<NewIndividual(tag)>>]
     ELSE IF Includes(tag, S_FAM)
       THEN [flushed EXCEPT !.currentContext = "family",
                            !.currentFamily = <<NewFamily(tag)>>]
     ELSE [flushed EXCEPT !.currentContext = "null",
                          !.currentIndividual = <<>>,
                          !.currentFamily = <<>>]

\* the level === 1 branch
Level1(st, tag, value) ==
  IF st.currentContext = "individual" /\ st.currentIndividual # <<>> THEN
    CASE tag = S_NAME -> [st EXCEPT !.currentIndividual[1].name = StripSlashes(value)]
      [] tag = S_BIRT -> [st EXCEPT !.currentEvent = <<NewEvent(S_birth)>>]
      [] tag = S_DEAT -> [st EXCEPT !.currentEvent = <<NewEvent(S_death)>>]
      [] tag = S_RESI -> [st EXCEPT !.currentEvent = <<NewEvent(S_residence)>>]
      [] tag = S_NOTE -> [st EXCEPT !.currentIndividual[1].notes = value]
      [] OTHER -> st
  ELSE IF st.currentContext = "family" /\ st.currentFamily # <<>> THEN
    CASE tag = S_HUSB -> [st EXCEPT !.currentFamily[1].husband = value]
      [] tag = S_WIFE -> [st EXCEPT !.currentFamily[1].wife = value]
      [] tag = S_CHIL -> [st EXCEPT !.currentFamily[1].children = Append(@, value)]
      [] tag = S_MARR -> [st EXCEPT !.currentEvent = <<NewEvent(S_marriage)>>]
      [] OTHER -> st
  ELSE st

\* the first half of the level === 2 branch: DATE / PLAC set on the pending event
SetEventField(ev, tag, value) ==
  CASE tag = S_DATE -> [ev EXCEPT !.date = value]
    [] tag = S_PLAC -> [ev EXCEPT !.place = value]
    [] OTHER -> ev

\* the second half: "Close event and add to appropriate context"
CloseEvent(st, ev) ==
  LET attached ==
        IF st.currentContext = "individual" /\ st.currentIndividual # <<>> THEN
          LET ind == st.currentIndividual[1]
              ind1 == IF ev.type = S_birth
                        THEN [ind EXCEPT !.birthDate = ev.date, !.birthPlace = ev.place]
                      ELSE IF ev.type = S_death
                        THEN [ind EXCEPT !.deathDate = ev.date, !.deathPlace = ev.place]
                      ELSE ind
          IN [st EXCEPT !.currentIndividual =
                          <<[ind1 EXCEPT !.events = Append(@, ev)]>>]
        ELSE IF st.currentContext = "family" /\ st.currentFamily # <<>> THEN
          IF ev.type = S_marriage
          THEN [st EXCEPT !.currentFamily[1].marriageDate = ev.date,
                          !.currentFamily[1].marriagePlace = ev.place]
          ELSE st
        ELSE st
  IN [attached EXCEPT !.events = Append(@, ev), !.currentEvent = <<>>]

Level2(st, tag, value) ==
  IF st.currentEvent = <<>> THEN st
  ELSE LET ev == SetEventField(st.currentEvent[1], tag, value)
       IN IF tag = S_DATE \/ tag = S_PLAC THEN CloseEvent(st, ev)
          ELSE [st EXCEPT !.currentEvent = <<ev>>]

\* one iteration of for (const line of lines)
ParseLineStep(st, line) ==
  LET level == LineLevel(line)
      tag == LineTag(line)
      value == LineValue(line)
  IN IF level = <<0>> THEN Level0(st, tag)
     ELSE IF level = <<1>> THEN Level1(st, tag, value)
     ELSE IF level = <<2>> THEN Level2(st, tag, value)
     ELSE st

\* "Save final context"
ParseFinish(st) ==
  [st EXCEPT !.individuals = FlushIndividual(st), !.families = FlushFamily(st)]

ParserState ==
  [currentContext |-> currentContext, currentIndividual |-> currentIndividual,
   currentFamily |-> currentFamily, currentEvent |-> currentEvent,
   individuals |-> individuals, families |-> families, events |-> events,
   threw |-> FALSE]

SetParserState(st) ==
  /\ currentContext' = st.currentContext
  /\ currentIndividual' = st.currentIndividual
  /\ currentFamily' = st.currentFamily
  /\ currentEvent' = st.currentEvent
  /\ individuals' = st.individuals
  /\ families' = st.families
  /\ events' = st.events

\* ------------------------------------------------------------------------
\* MemStorage: each Map is the sequence of its entries in insertion order
\* ------------------------------------------------------------------------
RECURSIVE DecimalString(_)
DecimalString(n) ==
  IF n < 10 THEN <<HexLower[n + 1]>>
  ELSE DecimalString(n \div 10) \o <<HexLower[(n % 10) + 1]>>

\* randomUUID(): the n-th identifier handed out; no two calls return the same
RandomUUID(n) == <<"u">> \o DecimalString(n)

MapHas(m, key) == \E k \in 1..Len(m) : m[k].key = key

\* Map.prototype.get
MapGet(m, key) ==
  IF MapHas(m, key) THEN (CHOOSE e \in {m[k] : k \in 1..Len(m)} : e.key = key).value
  ELSE Undefined

\* mutant: an entry is added whether or not the key is present
MapSet_Append(m, key, v) == Append(m, [key |-> key, value |-> v])

\* Map.prototype.set: replaces the value of a present key, appends a new one
MapSet(m, key, v) ==
  IF MapHas(m, key)
  THEN [k \in 1..Len(m) |-> IF m[k].key = key THEN [m[k] EXCEPT !.value = v] ELSE m[k]]
  ELSE Append(m, [key |-> key, value |-> v])

\* Map.prototype.delete: the map without the key
MapDelete(m, key) == SelectSeq(m, LAMBDA e : e.key # key)

\* Array.from(map.values())
MapValues(m) == [k \in 1..Len(m) |-> m[k].value]

Collections ==
  {"familyMembers", "locations", "events", "stories", "geopackageLayers",
   "atlasProjects"}

\* new MemStorage()
EmptyStorage == [c \in Collections |-> <<>>]

\* the entity createFamilyMember stores and returns
FamilyMember(insertMember, id) ==
  [id |-> id, name |-> insertMember.name, birthDate |-> insertMember.birthDate,
   deathDate |-> insertMember.deathDate, birthPlace |-> insertMember.birthPlace,
   deathPlace |-> insertMember.deathPlace, notes |-> insertMember.notes,
   photos |-> insertMember.photos]

\* the entity createLocation stores and returns
Location(insertLocation, id) ==
  [id |-> id, name |-> insertLocation.name, latitude |-> insertLocation.latitude,
   longitude |-> insertLocation.longitude, address |-> insertLocation.address,
   locationType |-> insertLocation.locationType,
   timeSpan |-> insertLocation.timeSpan, memberCount |-> insertLocation.memberCount]

\* the entity createEvent stores and returns
Event(insertEvent, id) ==
  [id |-> id, memberId |-> insertEvent.memberId, locationId |-> insertEvent.locationId,
   eventType |-> insertEvent.eventType, eventDate |-> insertEvent.eventDate,
   description |-> insertEvent.description, notes |-> insertEvent.notes]

\* mutant: an identifier two successive calls can share
CreateId_Coarse(n) == RandomUUID(n \div 2)

\* the identifier a create call draws
CreateId(n) == RandomUUID(n)

\* ------------------------------------------------------------------------
\* geocodeLocation: the reply of the geocoding service is the environment's
\* ------------------------------------------------------------------------
GeoOutcomes == {"match", "empty", "error"}

RECURSIVE DigitPrefix(_)
DigitPrefix(s) ==
  IF s # <<>> /\ IsDigit(Head(s), 10) THEN <<Head(s)>> \o DigitPrefix(Tail(s)) ELSE <<>>

RECURSIVE StripZeros(_)
StripZeros(s) ==
  IF s # <<>> /\ s[Len(s)] = "0" THEN StripZeros(SubSeq(s, 1, Len(s) - 1)) ELSE s

\* parseFloat(s) of a decimal literal: NaN, or the number as its sign, its
\* integer part and the digits of its fraction
ParseFloat(s) ==
  LET t == TrimStart(s)
      neg == t # <<>> /\ Head(t) = "-"
      u == IF t # <<>> /\ Head(t) \in {"+", "-"} THEN Tail(t) ELSE t
      ip == DigitPrefix(u)
      rest == SubSeq(u, Len(ip) + 1, Len(u))
      fp == IF rest # <<>> /\ Head(rest) = "." THEN DigitPrefix(Tail(rest)) ELSE <<>>
  IN IF ip = <<>> /\ fp = <<>> THEN NaN
     ELSE <<[neg |-> neg, int |-> IF ip = <<>> THEN 0 ELSE ParseDigits(ip, 10, 0, FALSE)[1],
             frac |-> StripZeros(fp)]>>

\* what fetch(...).json() yields: data with one result, data with none, a throw
FetchData(outcome) ==
  IF outcome = "match" THEN <<[lat |-> <<"4", "2", ".", "3", "6">>, lon |-> <<"-", "7", "1", ".", "0", "5">>]>>
  ELSE <<>>

\* mutant: if (data) in place of if (data && data.length > 0)
GeocodeLocation_NoLengthCheck(outcome) ==
  IF outcome = "error" THEN <<>>
  ELSE LET data == FetchData(outcome)
       IN IF Len(data) > 0
          THEN <<[lat |-> ParseFloat(data[1].lat), lng |-> ParseFloat(data[1].lon)]>>
          ELSE <<[lat |-> NaN, lng |-> NaN]>>

\* { lat, lng } or null
GeocodeLocation(outcome) ==
  IF outcome = "error" THEN <<>>
  ELSE LET data == FetchData(outcome)
       IN IF Len(data) > 0
          THEN <<[lat |-> ParseFloat(data[1].lat), lng |-> ParseFloat(data[1].lon)]>>
          ELSE <<>>

\* ------------------------------------------------------------------------
\* parseGedcomData (the parser of the GEDCOM upload handler)
\* ------------------------------------------------------------------------
NewMemberData ==
  [name |-> <<>>, birthDate |-> Null, deathDate |-> Null, birthPlace |-> Null,
   deathPlace |-> Null, notes |-> <<>>, photos |-> <<>>]

\* s.split(sep)[1]
SplitSecond(s, sep) ==
  LET p == Split(s, sep) IN IF Len(p) >= 2 THEN p[2] ELSE Undefined

GedcomDataLine(st, line) ==
  LET trimmed == Trim(line)
      cur == st.currentIndividual
  IN IF StartsWith(trimmed, <<"0">>) /\ Includes(trimmed, S_INDI) THEN
       [members |-> IF cur # <<>> THEN Append(st.members, cur[1]) ELSE st.members,
        currentIndividual |-> <<NewMemberData>>]
     ELSE IF cur # <<>> THEN
       IF Includes(trimmed, S_NAME) THEN
         [st EXCEPT !.currentIndividual[1].name =
                      OrElse(SplitSecond(trimmed, S_NAME \o <<" ">>), <<>>)]
       ELSE IF Includes(trimmed, S_BIRT) THEN st
       ELSE IF Includes(trimmed, S_DEAT) THEN st
       ELSE IF Includes(trimmed, S_DATE) THEN
         LET date == SplitSecond(trimmed, S_DATE \o <<" ">>)
         IN IF ~Truthy(cur[1].birthDate)
              THEN [st EXCEPT !.currentIndividual[1].birthDate = date]
            ELSE IF ~Truthy(cur[1].deathDate)
              THEN [st EXCEPT !.currentIndividual[1].deathDate = date]
            ELSE st
       ELSE IF Includes(trimmed, S_PLAC) THEN
         LET place == SplitSecond(trimmed, S_PLAC \o <<" ">>)
         IN IF ~Truthy(cur[1].birthPlace)
              THEN [st EXCEPT !.currentIndividual[1].birthPlace = place]
            ELSE IF ~Truthy(cur[1].deathPlace)
              THEN [st EXCEPT !.currentIndividual[1].deathPlace = place]
            ELSE st
       ELSE st
     ELSE st

RECURSIVE GedcomDataLoop(_, _)
GedcomDataLoop(st, ls) ==
  IF ls = <<>> THEN st ELSE GedcomDataLoop(GedcomDataLine(st, Head(ls)), Tail(ls))

\* the members parseGedcomData returns
ParseGedcomData(text) ==
  LET st == GedcomDataLoop([members |-> <<>>, currentIndividual |-> <<>>],
                           Split(text, <<"\n">>))
  IN IF st.currentIndividual # <<>>
     THEN Append(st.members, st.currentIndividual[1]) ELSE st.members

\* ------------------------------------------------------------------------
\* The rows of the CSV upload handler
\* ------------------------------------------------------------------------
UpperCase == <<"A", "B", "C", "D", "E", "F", "G", "H", "I", "J", "K", "L", "M",
               "N", "O", "P", "Q", "R", "S", "T", "U", "V", "W", "X", "Y", "Z">>
LowerCase == <<"a", "b", "c", "d", "e", "f", "g", "h", "i", "j", "k", "l", "m",
               "n", "o", "p", "q", "r", "s", "t", "u", "v", "w", "x", "y", "z">>

LowerChar(ch) ==
  IF \E k \in 1..Len(UpperCase) : UpperCase[k] = ch
  THEN LowerCase[CHOOSE k \in 1..Len(UpperCase) : UpperCase[k] = ch] ELSE ch

\* String.prototype.toLowerCase
ToLowerCase(s) == [k \in 1..Len(s) |-> LowerChar(s[k])]

HasText(line) == Trim(line) # <<>>

\* csvData.split('\n').filter(line => line.trim())
CsvLines(text) == SelectSeq(Split(text, <<"\n">>), HasText)

TrimLower(h) == ToLowerCase(Trim(h))

\* lines[0].split(',').map(h => h.trim().toLowerCase())
CsvHeaders(line) ==
  LET hs == Split(line, <<",">>) IN [k \in 1..Len(hs) |-> TrimLower(hs[k])]

\* lines[i].split(',').map(v => v.trim())
CsvValues(line) == TrimAll(Split(line, <<",">>))

\* row[key] after headers.forEach((header, index) => row[header] = values[index] || '')
RowGet(headers, values, key) ==
  LET hits == {k \in 1..Len(headers) : headers[k] = key}
  IN IF hits = {} THEN Undefined
     ELSE LET k == CHOOSE h \in hits : \A g \in hits : g <= h
          IN IF k <= Len(values) THEN OrElse(values[k], <<>>) ELSE <<>>

S_name == <<"n", "a", "m", "e">>
S_birth_date == <<"b", "i", "r", "t", "h", "_", "d", "a", "t", "e">>
S_birthdate == <<"b", "i", "r", "t", "h", "d", "a", "t", "e">>
S_death_date == <<"d", "e", "a", "t", "h", "_", "d", "a", "t", "e">>
S_deathdate == <<"d", "e", "a", "t", "h", "d", "a", "t", "e">>
S_birth_place == <<"b", "i", "r", "t", "h", "_", "p", "l", "a", "c", "e">>
S_birthplace == <<"b", "i", "r", "t", "h", "p", "l", "a", "c", "e">>
S_death_place == <<"d", "e", "a", "t", "h", "_", "p", "l", "a", "c", "e">>
S_deathplace == <<"d", "e", "a", "t", "h", "p", "l", "a", "c", "e">>
S_notes == <<"n", "o", "t", "e", "s">>

\* mutant: the plain alias before the underscore alias
RowEither_PlainFirst(headers, values, a, b) ==
  OrElse(RowGet(headers, values, b), RowGet(headers, values, a))

\* row.a || row.b
RowEither(headers, values, a, b) ==
  OrElse(RowGet(headers, values, a), RowGet(headers, values, b))

\* the record the CSV handler reads from one data line: the argument of
\* createFamilyMember and the place / date expressions of the loop below it
CsvRow(headers, line) ==
  LET values == CsvValues(line)
  IN [name |-> RowGet(headers, values, S_name),
      birthDate |-> OrElse(RowEither(headers, values, S_birth_date, S_birthdate), Null),
      deathDate |-> OrElse(RowEither(headers, values, S_death_date, S_deathdate), Null),
      birthPlace |-> OrElse(RowEither(headers, values, S_birth_place, S_birthplace), Null),
      deathPlace |-> OrElse(RowEither(headers, values, S_death_place, S_deathplace), Null),
      notes |-> OrElse(RowGet(headers, values, S_notes), <<>>),
      photos |-> <<>>,
      placeOfBirth |-> RowEither(headers, values, S_birth_place, S_birthplace),
      placeOfDeath |-> RowEither(headers, values, S_death_place, S_deathplace),
      dateOfBirth |-> RowEither(headers, values, S_birth_date, S_birthdate),
      dateOfDeath |-> RowEither(headers, values, S_death_date, S_deathdate)]

\* the same record for a member parseGedcomData returned
GedcomRow(memberData) ==
  [name |-> memberData.name,
   birthDate |-> memberData.birthDate, deathDate |-> memberData.deathDate,
   birthPlace |-> memberData.birthPlace, deathPlace |-> memberData.deathPlace,
   notes |-> OrElse(memberData.notes, <<>>),
   photos |-> memberData.photos,
   placeOfBirth |-> memberData.birthPlace, placeOfDeath |-> memberData.deathPlace,
   dateOfBirth |-> memberData.birthDate, dateOfDeath |-> memberData.deathDate]

HasPlace(p) == Truthy(p.place)

\* mutant: the death place before the birth place
PlacesOf_DeathFirst(row) ==
  SelectSeq(<<[place |-> row.placeOfDeath, type |-> S_death],
              [place |-> row.placeOfBirth, type |-> S_birth]>>, HasPlace)

\* [{place: birth place, type: 'birth'}, {place: death place, type: 'death'}].filter(p => p.place)
PlacesOf(row) ==
  SelectSeq(<<[place |-> row.placeOfBirth, type |-> S_birth],
              [place |-> row.placeOfDeath, type |-> S_death]>>, HasPlace)

\* mutant: the birth date whatever the type
DateOfType_AlwaysBirth(row, type) == row.dateOfBirth

\* type === 'birth' ? birth date : death date
DateOfType(row, type) == IF type = S_birth THEN row.dateOfBirth ELSE row.dateOfDeath

S_Born == <<"B", "o", "r", "n">>
S_Died == <<"D", "i", "e", "d">>
S_in == <<" ", "i", "n", " ">>

\* `${type === 'birth' ? 'Born' : 'Died'} in ${place}`
Description(type, place) == (IF type = S_birth THEN S_Born ELSE S_Died) \o S_in \o place

\* the argument of storage.createLocation
InsertLocation(row, p, coords) ==
  [name |-> p.place, latitude |-> coords.lat, longitude |-> coords.lng,
   address |-> p.place, locationType |-> p.type,
   timeSpan |-> DateOfType(row, p.type), memberCount |-> 1]

\* mutant: the two references exchanged
InsertEvent_SwappedIds(row, p, member, location) ==
  [memberId |-> location.id, locationId |-> member.id, eventType |-> p.type,
   eventDate |-> DateOfType(row, p.type),
   description |-> Description(p.type, p.place), notes |-> <<>>]

\* the argument of storage.createEvent
InsertEvent(row, p, member, location) ==
  [memberId |-> member.id, locationId |-> location.id, eventType |-> p.type,
   eventDate |-> DateOfType(row, p.type),
   description |-> Description(p.type, p.place), notes |-> <<>>]

\* ------------------------------------------------------------------------
\* parseCsv (the client's CSV reader)
\* ------------------------------------------------------------------------
S_unknown_location == <<"u", "n", "k", "n", "o", "w", "n", " ", "l", "o", "c", "a", "t", "i", "o", "n">>

\* mutant: an event only where the place is known
CsvEvents_PlaceOnly(birthDate, birthPlace, deathDate, deathPlace) ==
  (IF Truthy(birthPlace)
   THEN <<[type |-> S_birth, date |-> birthDate, place |-> birthPlace,
           description |-> S_Born \o S_in \o birthPlace]>>
   ELSE <<>>)
  \o
  (IF Truthy(deathPlace)
   THEN <<[type |-> S_death, date |-> deathDate, place |-> deathPlace,
           description |-> S_Died \o S_in \o deathPlace]>>
   ELSE <<>>)

\* the events parseCsv synthesizes for one individual
CsvEvents(birthDate, birthPlace, deathDate, deathPlace) ==
  (IF Truthy(birthDate) \/ Truthy(birthPlace)
   THEN <<[type |-> S_birth, date |-> birthDate, place |-> birthPlace,
           description |-> S_Born \o S_in \o OrElse(birthPlace, S_unknown_location)]>>
   ELSE <<>>)
  \o
  (IF Truthy(deathDate) \/ Truthy(deathPlace)
   THEN <<[type |-> S_death, date |-> deathDate, place |-> deathPlace,
           description |-> S_Died \o S_in \o OrElse(deathPlace, S_unknown_location)]>>
   ELSE <<>>)

\* the individual parseCsv builds from data line i
CsvIndividual(headers, line, i) ==
  LET values == CsvValues(line)
      birthDate == OrElse(RowEither(headers, values, S_birth_date, S_birthdate), Undefined)
      deathDate == OrElse(RowEither(headers, values, S_death_date, S_deathdate), Undefined)
      birthPlace == OrElse(RowEither(headers, values, S_birth_place, S_birthplace), Undefined)
      deathPlace == OrElse(RowEither(headers, values, S_death_place, S_deathplace), Undefined)
  IN [id |-> <<"I">> \o DecimalString(i),
      name |-> RowGet(headers, values, S_name),
      birthDate |-> birthDate, deathDate |-> deathDate,
      birthPlace |-> birthPlace, deathPlace |-> deathPlace,
      notes |-> OrElse(RowGet(headers, values, S_notes), Undefined),
      events |-> CsvEvents(birthDate, birthPlace, deathDate, deathPlace)]

\* mutant: no row is skipped
RowNamed_Always(individual) == TRUE

\* if (!row.name) continue
RowNamed(individual) == Truthy(individual.name)

ParseCsv(text) ==
  LET ls == CsvLines(text)
  IN IF Len(ls) < 2 THEN <<>>
     ELSE SelectSeq([k \in 1..(Len(ls) - 1) |-> CsvIndividual(CsvHeaders(ls[1]), ls[k + 1], k)],
                    RowNamed)

\* ------------------------------------------------------------------------
\* The uploaded files
\* ------------------------------------------------------------------------
G_Ann ==
  <<<<"0", " ", "@", "I", "1", "@", " ", "I", "N", "D", "I">>,
    <<"1", " ", "N", "A", "M", "E", " ", "A", "n", "n">>,
    <<"1", " ", "B", "I", "R", "T">>,
    <<"2", " ", "D", "A", "T", "E", " ", "1", "9", "0", "0">>,
    <<"2", " ", "P", "L", "A", "C", " ", "B", "o", "s", "t", "o", "n">>,
    <<"1", " ", "D", "E", "A", "T">>,
    <<"2", " ", "D", "A", "T", "E", " ", "1", "9", "5", "0">>,
    <<"2", " ", "P", "L", "A", "C", " ", "C", "h", "i", "c", "a", "g", "o">>>>
G_Bob ==
  <<<<"0", " ", "@", "I", "2", "@", " ", "I", "N", "D", "I">>,
    <<"1", " ", "N", "A", "M", "E", " ", "B", "o", "b">>,
    <<"1", " ", "B", "I", "R", "T">>,
    <<"2", " ", "P", "L", "A", "C", " ", "B", "o", "s", "t", "o", "n">>>>
G_Cy ==
  <<<<"0", " ", "@", "I", "3", "@", " ", "I", "N", "D", "I">>,
    <<"1", " ", "N", "A", "M", "E", " ", "C", "y">>,
    <<"1", " ", "B", "I", "R", "T">>,
    <<"2", " ", "D", "A", "T", "E", " ", "1", "9", "0", "0">>>>
G_NoName ==
  <<<<"0", " ", "@", "I", "4", "@", " ", "I", "N", "D", "I">>,
    <<"1", " ", "B", "I", "R", "T">>,
    <<"2", " ", "P", "L", "A", "C", " ", "B", "o", "s", "t", "o", "n">>>>
CsvHeader ==
  <<"n", "a", "m", "e", ",", "b", "i", "r", "t", "h", "_", "d", "a", "t", "e", ",", "b", "i", "r", "t", "h", "_", "p", "l", "a", "c", "e", ",", "d", "e", "a", "t", "h", "_", "d", "a", "t", "e", ",", "d", "e", "a", "t", "h", "_", "p", "l", "a", "c", "e">>
R_Ann ==
  <<"A", "n", "n", ",", "1", "9", "0", "0", ",", "B", "o", "s", "t", "o", "n", ",", "1", "9", "5", "0", ",", "C", "h", "i", "c", "a", "g", "o">>
R_Bob ==
  <<"B", "o", "b", ",", ",", "B", "o", "s", "t", "o", "n">>
R_Cy ==
  <<"C", "y", ",", "1", "9", "0", "0">>
R_NoName ==
  <<",", "1", "9", "0", "0", ",", "B", "o", "s", "t", "o", "n">>
R_Dee ==
  <<"D", "e", "e", ",", "1", "9", "0", "0", ",", "C", "h", "i", "c", "a", "g", "o">>

\* a death without a birth; a residence between the birth and nothing else
G_Dan ==
  <<<<"0", " ", "@", "I", "5", "@", " ", "I", "N", "D", "I">>,
    <<"1", " ", "N", "A", "M", "E", " ", "D", "a", "n">>,
    <<"1", " ", "D", "E", "A", "T">>,
    <<"2", " ", "D", "A", "T", "E", " ", "1", "9", "5", "0">>,
    <<"2", " ", "P", "L", "A", "C", " ", "C", "h", "i", "c", "a", "g", "o">>>>
G_Eve ==
  <<<<"0", " ", "@", "I", "6", "@", " ", "I", "N", "D", "I">>,
    <<"1", " ", "N", "A", "M", "E", " ", "E", "v", "e">>,
    <<"1", " ", "B", "I", "R", "T">>,
    <<"2", " ", "D", "A", "T", "E", " ", "1", "9", "0", "0">>,
    <<"1", " ", "R", "E", "S", "I">>,
    <<"2", " ", "D", "A", "T", "E", " ", "1", "9", "2", "0">>,
    <<"2", " ", "P", "L", "A", "C", " ", "P", "a", "r", "i", "s">>>>

RECURSIVE Flatten(_)
Flatten(ss) == IF ss = <<>> THEN <<>> ELSE Head(ss) \o Flatten(Tail(ss))

\* the GEDCOM files of at most n records drawn from blocks
GedcomFiles(blocks, n) ==
  UNION { { Join(Flatten(f), <<"\n">>) : f \in [1..k -> blocks] } : k \in 0..n }

\* the CSV files of a header line and at most n data rows drawn from rows
CsvFiles(rows, n) ==
  UNION { { Join(<<CsvHeader>> \o f, <<"\n">>) : f \in [1..k -> rows] } : k \in 0..n }

\* a request: the handler it reaches and req.file (absent, or the file's text)
Requests(gedcomBlocks, csvRows, n) ==
  { [kind |-> "gedcom", file |-> <<t>>] : t \in GedcomFiles(gedcomBlocks, n) }
    \cup { [kind |-> "csv", file |-> <<t>>] : t \in CsvFiles(csvRows, n) }

NoFileRequests == { [kind |-> k, file |-> <<>>] : k \in {"gedcom", "csv"} }

\* one upload over files of every shape, beside a request without a file
SingleRequests ==
  Requests({G_Ann, G_Bob, G_Cy, G_NoName}, {R_Ann, R_Bob, R_Cy, R_NoName}, MaxRecords)
    \X NoFileRequests

\* two uploads in flight together; the handlers treat the two requests alike,
\* so of each pair and its mirror image one is kept
ConcurrentRequests ==
  LET R == Requests({G_Bob}, {R_Dee}, MaxConcRecords)
  IN  { p \in R \X R :
          \/ p[1].kind = "gedcom" /\ p[2].kind = "csv"
          \/ p[1].kind = p[2].kind /\ Len(p[1].file[1]) <= Len(p[2].file[1]) }

\* one upload of a record whose events are not a birth followed by a death
OtherEventRequests ==
  { [kind |-> "gedcom", file |-> <<Join(b, <<"\n">>)>>] : b \in {G_Dan, G_Eve} }
    \X NoFileRequests

Uploads == {"u1", "u2"}

\* onDisk: multer's upload.single('file') has written the file under uploads/
\* before the handler starts, and req.file.path names it; ioError: the file
\* system failed a read or an unlink of this request
NewUpload(req) ==
  [kind |-> req.kind, file |-> req.file, onDisk |-> req.file # <<>>,
   ioError |-> FALSE, pc |-> "start",
   members |-> <<>>, lines |-> <<>>, headers |-> <<>>, i |-> 0,
   member |-> <<>>, places |-> <<>>, j |-> 0, coords |-> <<>>, location |-> <<>>,
   createdMembers |-> <<>>, createdLocations |-> <<>>, createdEvents |-> <<>>,
   response |-> <<>>]

\* no upload request reaches the server
ServerIdle ==
  /\ storage = EmptyStorage
  /\ uuidCount = 0
  /\ geoCalls = <<>>
  /\ uploads = <<>>

\* parseGedcom is not running
ParseIdle ==
  /\ gedcomText = <<>>
  /\ lines = <<>>
  /\ lineIdx = 0
  /\ currentContext = "null"
  /\ currentIndividual = <<>>
  /\ currentFamily = <<>>
  /\ currentEvent = <<>>
  /\ individuals = <<>>
  /\ families = <<>>
  /\ events = <<>>
  /\ pc = "idle"
  /\ gedcomData = <<>>

\* parseCsv is not running
CsvIdle ==
  /\ csvText = <<>>
  /\ csvIndividuals = <<>>
  /\ csvPc = "idle"

\* generateStoryFromEvents is not running
StoryIdle ==
  /\ storyArgs = <<>>
  /\ story = <<>>
  /\ storyPc = "idle"

\* no call of MemStorage or of a collection route has been made
ApiIdle ==
  /\ now = 0
  /\ lastCall = <<>>
  /\ ledger = <<>>

\* the home page is not open
ClientIdle ==
  /\ layerVisibility = <<>>
  /\ timelineYear = 0
  /\ homeLocations = <<>>
  /\ stories = <<>>
  /\ currentStoryIndex = 0
  /\ leaflet = FALSE
  /\ mapInstance = <<>>
  /\ isMapLoaded = FALSE
  /\ markersRef = <<>>
  /\ mapLayers = <<>>

InitParse ==
  /\ ServerIdle
  /\ CsvIdle
  /\ StoryIdle
  /\ ApiIdle
  /\ ClientIdle
  /\ gedcomData = <<>>
  /\ gedcomText \in GedcomTexts(MaxLines)
  /\ lines = <<>>
  /\ lineIdx = 0
  /\ currentContext = "null"
  /\ currentIndividual = <<>>
  /\ currentFamily = <<>>
  /\ currentEvent = <<>>
  /\ individuals = <<>>
  /\ families = <<>>
  /\ events = <<>>
  /\ pc = "start"

\* the call: the text is split into its trimmed non-empty lines
ParseStart ==
  /\ UNCHANGED <<serverVars, csvVars, storyVars, apiVars, clientVars>>
  /\ pc = "start"
  /\ lines' = GedcomLines(gedcomText)
  /\ lineIdx' = 1
  /\ pc' = "loop"
  /\ UNCHANGED <<gedcomText, currentContext, currentIndividual, currentFamily,
                 currentEvent, individuals, families, events, gedcomData>>

\* one line of the loop; a TypeError leaves the function without a result
ParseLine ==
  /\ UNCHANGED <<serverVars, csvVars, storyVars, apiVars, clientVars>>
  /\ pc = "loop"
  /\ lineIdx <= Len(lines)
  /\ LET st == ParseLineStep(ParserState, lines[lineIdx])
     IN /\ SetParserState(st)
        /\ pc' = IF st.threw THEN "threw" ELSE "loop"
  /\ lineIdx' = lineIdx + 1
  /\ UNCHANGED <<gedcomText, lines, gedcomData>>

\* end of input: the final flush and the return
ParseReturn ==
  /\ UNCHANGED <<serverVars, csvVars, storyVars, apiVars, clientVars>>
  /\ pc = "loop"
  /\ lineIdx > Len(lines)
  /\ SetParserState(ParseFinish(ParserState))
  /\ pc' = "done"
  /\ UNCHANGED <<gedcomText, lines, lineIdx, gedcomData>>

\* the server's parser is given the text parseGedcom was given
ParseGedcomDataCall ==
  /\ UNCHANGED <<serverVars, csvVars, storyVars, apiVars, clientVars>>
  /\ pc \in {"done", "threw"}
  /\ gedcomData = <<>>
  /\ gedcomData' = <<ParseGedcomData(gedcomText)>>
  /\ UNCHANGED <<gedcomText, lines, lineIdx, currentContext, currentIndividual,
                 currentFamily, currentEvent, individuals, families, events, pc>>

NextParse == ParseStart \/ ParseLine \/ ParseReturn \/ ParseGedcomDataCall

SpecParse == InitParse /\ [][NextParse]_vars

\* ------------------------------------------------------------------------
\* generateStoryFromEvents
\* ------------------------------------------------------------------------
\* new Date(eventDate || '1900-01-01').getTime(), in years: a year-only text
\* and the default date are at the start of their year, other texts are
\* invalid dates
GetTime(eventDate) ==
  LET text == OrElse(eventDate, <<"1", "9", "0", "0", "-", "0", "1", "-", "0", "1">>)
  IN IF text = <<"1", "9", "0", "0", "-", "0", "1", "-", "0", "1">> THEN <<1900>>
     ELSE IF Len(text) = 4 /\ \A k \in 1..4 : IsDigit(text[k], 10) THEN ParseInt(text)
     ELSE NaN

\* mutant: the later date first
CompareEvents_Reversed(a, b) ==
  IF GetTime(a.eventDate) = NaN \/ GetTime(b.eventDate) = NaN THEN 0
  ELSE GetTime(b.eventDate)[1] - GetTime(a.eventDate)[1]

\* the comparator of memberEvents.sort: dateA.getTime() - dateB.getTime();
\* sort reads a NaN result as 0
CompareEvents(a, b) ==
  IF GetTime(a.eventDate) = NaN \/ GetTime(b.eventDate) = NaN THEN 0
  ELSE GetTime(a.eventDate)[1] - GetTime(b.eventDate)[1]

\* Array.prototype.sort (stable): the event goes behind the sorted events
\* that are not after it
RECURSIVE InsertSorted(_, _)
InsertSorted(sorted, event) ==
  IF sorted = <<>> THEN <<event>>
  ELSE IF CompareEvents(sorted[Len(sorted)], event) <= 0 THEN Append(sorted, event)
  ELSE Append(InsertSorted(SubSeq(sorted, 1, Len(sorted) - 1), event), sorted[Len(sorted)])

RECURSIVE SortEvents(_)
SortEvents(memberEvents) ==
  IF memberEvents = <<>> THEN <<>>
  ELSE InsertSorted(SortEvents(SubSeq(memberEvents, 1, Len(memberEvents) - 1)),
                    memberEvents[Len(memberEvents)])

\* Object.entries(eventsByMember): the member ids in the order of their first
\* event, each with its events in list order
RECURSIVE EventsByMember(_)
EventsByMember(allEvents) ==
  IF allEvents = <<>> THEN <<>>
  ELSE LET memberId == Head(allEvents).memberId
           Mine(e) == e.memberId = memberId
           Other(e) == e.memberId # memberId
       IN <<[memberId |-> memberId, memberEvents |-> SelectSeq(allEvents, Mine)]>>
            \o EventsByMember(SelectSeq(allEvents, Other))

\* Array.prototype.find by id: the first match, or none
FindById(items, id) ==
  LET hits == {k \in 1..Len(items) : items[k].id = id}
  IN IF hits = {} THEN <<>> ELSE <<items[CHOOSE k \in hits : \A h \in hits : k <= h]>>

\* what one event adds to the story
EventPhrase(event, locations) ==
  LET location == FindById(locations, event.locationId)
      name == IF location = <<>> THEN Undefined ELSE location[1].name
      date == IF Truthy(event.eventDate) THEN S_in \o event.eventDate ELSE <<>>
  IN IF event.eventType = S_birth
       THEN <<"w", "i", "t", "h", " ", "t", "h", "e", "i", "r", " ", "b", "i", "r", "t", "h", " ", "i", "n", " ">> \o OrElse(name, <<"a", "n", " ", "u", "n", "k", "n", "o", "w", "n", " ", "l", "o", "c", "a", "t", "i", "o", "n">>) \o date
     ELSE IF event.eventType = S_migration
       THEN <<",", " ", "f", "o", "l", "l", "o", "w", "e", "d", " ", "b", "y", " ", "a", " ", "s", "i", "g", "n", "i", "f", "i", "c", "a", "n", "t", " ", "m", "i", "g", "r", "a", "t", "i", "o", "n", " ", "t", "o", " ">> \o OrElse(name, <<"a", " ", "n", "e", "w", " ", "l", "o", "c", "a", "t", "i", "o", "n">>) \o date
     ELSE IF event.eventType = S_death
       THEN <<",", " ", "a", "n", "d", " ", "t", "h", "e", "i", "r", " ", "l", "i", "f", "e", " ", "c", "o", "n", "c", "l", "u", "d", "e", "d", " ", "i", "n", " ">> \o OrElse(name, <<"a", "n", " ", "u", "n", "k", "n", "o", "w", "n", " ", "l", "o", "c", "a", "t", "i", "o", "n">>) \o date
     ELSE <<>>

\* the events of one member, each followed by ', ' unless it is the last
RECURSIVE EventPhrases(_, _)
EventPhrases(sortedEvents, locations) ==
  IF sortedEvents = <<>> THEN <<>>
  ELSE EventPhrase(Head(sortedEvents), locations)
         \o (IF Len(sortedEvents) > 1 THEN <<",", " ">> ELSE <<>>)
         \o EventPhrases(Tail(sortedEvents), locations)

\* one iteration of the loop over the members: nothing for an unknown member
MemberStory(entry, members, locations) ==
  LET member == FindById(members, entry.memberId)
  IN IF member = <<>> THEN <<>>
     ELSE member[1].name \o <<"'", "s", " ", "j", "o", "u", "r", "n", "e", "y", " ", "b", "e", "g", "a", "n", " ">>
            \o EventPhrases(SortEvents(entry.memberEvents), locations)
            \o <<".", " ">>
            \o (IF Truthy(member[1].notes) THEN member[1].notes \o <<" ">> ELSE <<>>)

GenerateStoryFromEvents(allEvents, members, locations) ==
  IF Len(allEvents) = 0 THEN <<>>
  ELSE LET entries == EventsByMember(allEvents)
       IN Trim(Flatten([k \in 1..Len(entries) |-> MemberStory(entries[k], members, locations)]))

\* ------------------------------------------------------------------------
\* The upload handlers.  A handler runs from one await to the next in one
\* step; the steps of different requests interleave.
\* ------------------------------------------------------------------------
UploadsArrive(requests) ==
  /\ CsvIdle
  /\ StoryIdle
  /\ ApiIdle
  /\ ClientIdle
  /\ gedcomData = <<>>
  /\ gedcomText = <<>>
  /\ lines = <<>>
  /\ lineIdx = 0
  /\ currentContext = "null"
  /\ currentIndividual = <<>>
  /\ currentFamily = <<>>
  /\ currentEvent = <<>>
  /\ individuals = <<>>
  /\ families = <<>>
  /\ events = <<>>
  /\ pc = "idle"
  /\ storage = EmptyStorage
  /\ uuidCount = 0
  /\ geoCalls = [u \in Uploads |-> <<>>]
  /\ \E reqs \in requests :
       uploads = [u \in Uploads |-> NewUpload(IF u = "u1" THEN reqs[1] ELSE reqs[2])]

InitUpload == UploadsArrive(SingleRequests \cup ConcurrentRequests \cup OtherEventRequests)

\* the record of the loop's current iteration
CurrentRow(up) ==
  IF up.kind = "gedcom" THEN GedcomRow(up.members[up.i])
  ELSE CsvRow(up.headers, up.lines[up.i + 1])

\* for (const memberData of members) / for (let i = 1; i < lines.length; i++)
LoopDone(up) ==
  IF up.kind = "gedcom" THEN up.i > Len(up.members) ELSE up.i >= Len(up.lines)

\* mutant: after the last place of a record the handler is not resumed
EnterPlace_Stuck(up, j) ==
  IF j <= Len(up.places) THEN [up EXCEPT !.j = j, !.pc = "geocoding"]
  ELSE [up EXCEPT !.j = j, !.pc = "stuck"]

\* control at for (const { place, type } of places) with index j: the handler
\* calls geocodeLocation(place) and awaits it, or moves on to the next record
EnterPlace(up, j) ==
  IF j <= Len(up.places) THEN [up EXCEPT !.j = j, !.pc = "geocoding"]
  ELSE [up EXCEPT !.j = j, !.i = @ + 1, !.pc = "loop"]

\* mutant: a place already asked for in this upload is not asked for again
CallsAt_Cached(calls, up, j) ==
  IF j <= Len(up.places)
     /\ ~\E k \in 1..Len(calls) : calls[k].address = up.places[j].place
  THEN Append(calls, [address |-> up.places[j].place, outcome |-> "pending"])
  ELSE calls

\* the request geocodeLocation sends when the loop reaches places[j]
CallsAt(calls, up, j) ==
  IF j <= Len(up.places)
  THEN Append(calls, [address |-> up.places[j].place, outcome |-> "pending"])
  ELSE calls

\* if (!req.file) return res.status(400)
UploadNoFile(u) ==
  /\ UNCHANGED <<parseVars, csvVars, storyVars, apiVars, clientVars>>
  /\ uploads[u].pc = "start"
  /\ uploads[u].file = <<>>
  /\ uploads' = [uploads EXCEPT ![u].pc = "done",
                   ![u].response = <<[status |-> 400, message |-> "No file uploaded"]>>]
  /\ UNCHANGED <<storage, uuidCount, geoCalls>>

\* POST /api/upload/gedcom: readFileSync and parseGedcomData
GedcomRead(u) ==
  /\ UNCHANGED <<parseVars, csvVars, storyVars, apiVars, clientVars>>
  /\ uploads[u].pc = "start"
  /\ uploads[u].kind = "gedcom"
  /\ uploads[u].file # <<>>
  /\ uploads' = [uploads EXCEPT ![u].members = ParseGedcomData(uploads[u].file[1]),
                                ![u].i = 1, ![u].pc = "loop"]
  /\ UNCHANGED <<storage, uuidCount, geoCalls>>

\* POST /api/upload/csv: readFileSync, the lines and the header
CsvRead(u) ==
  /\ UNCHANGED <<parseVars, csvVars, storyVars, apiVars, clientVars>>
  /\ uploads[u].pc = "start"
  /\ uploads[u].kind = "csv"
  /\ uploads[u].file # <<>>
  /\ LET ls == CsvLines(uploads[u].file[1])
     IN uploads' =
          IF Len(ls) < 2
          THEN [uploads EXCEPT ![u].lines = ls, ![u].pc = "done",
                  ![u].response = <<[status |-> 400,
                     message |-> "CSV file must have header and data rows"]>>]
          ELSE [uploads EXCEPT ![u].lines = ls, ![u].headers = CsvHeaders(ls[1]),
                               ![u].i = 1, ![u].pc = "loop"]
  /\ UNCHANGED <<storage, uuidCount, geoCalls>>

\* if (!memberData.name) continue / if (!row.name) continue
SkipRecord(u) ==
  /\ UNCHANGED <<parseVars, csvVars, storyVars, apiVars, clientVars>>
  /\ uploads[u].pc = "loop"
  /\ ~LoopDone(uploads[u])
  /\ ~Truthy(CurrentRow(uploads[u]).name)
  /\ uploads' = [uploads EXCEPT ![u].i = @ + 1]
  /\ UNCHANGED <<storage, uuidCount, geoCalls>>

\* storage.createFamilyMember, createdMembers.push, the places of the record
\* and the first geocodeLocation call
CreateMember(u) ==
  /\ UNCHANGED <<parseVars, csvVars, storyVars, apiVars, clientVars>>
  /\ uploads[u].pc = "loop"
  /\ ~LoopDone(uploads[u])
  /\ Truthy(CurrentRow(uploads[u]).name)
  /\ LET row == CurrentRow(uploads[u])
         member == FamilyMember(row, CreateId(uuidCount))
         up == [uploads[u] EXCEPT !.member = <<member>>,
                                  !.createdMembers = Append(@, member),
                                  !.places = PlacesOf(row)]
     IN /\ storage' = [storage EXCEPT
                         !.familyMembers = MapSet(@, member.id, member)]
        /\ uploads' = [uploads EXCEPT ![u] = EnterPlace(up, 1)]
        /\ geoCalls' = [geoCalls EXCEPT ![u] = CallsAt(@, up, 1)]
  /\ uuidCount' = uuidCount + 1

\* the fetch of geocodeLocation settles: coords or null; on null the handler
\* goes on with the next place
GeocodeReturn(u) ==
  /\ UNCHANGED <<parseVars, csvVars, storyVars, apiVars, clientVars>>
  /\ uploads[u].pc = "geocoding"
  /\ \E outcome \in GeoOutcomes :
       LET coords == GeocodeLocation(outcome)
           up == [uploads[u] EXCEPT !.coords = coords]
           calls == [geoCalls[u] EXCEPT ![Len(geoCalls[u])].outcome = outcome]
       IN IF coords # <<>>
          THEN /\ uploads' = [uploads EXCEPT ![u] = [up EXCEPT !.pc = "location"]]
               /\ geoCalls' = [geoCalls EXCEPT ![u] = calls]
          ELSE /\ uploads' = [uploads EXCEPT ![u] = EnterPlace(up, up.j + 1)]
               /\ geoCalls' = [geoCalls EXCEPT ![u] = CallsAt(calls, up, up.j + 1)]
  /\ UNCHANGED <<storage, uuidCount>>

\* storage.createLocation and createdLocations.push
CreateLocation(u) ==
  /\ UNCHANGED <<parseVars, csvVars, storyVars, apiVars, clientVars>>
  /\ uploads[u].pc = "location"
  /\ LET up == uploads[u]
         location == Location(InsertLocation(CurrentRow(up), up.places[up.j],
                                             up.coords[1]), CreateId(uuidCount))
     IN /\ storage' = [storage EXCEPT !.locations = MapSet(@, location.id, location)]
        /\ uploads' = [uploads EXCEPT ![u].location = <<location>>,
                                      ![u].createdLocations = Append(@, location),
                                      ![u].pc = "event"]
  /\ uuidCount' = uuidCount + 1
  /\ UNCHANGED geoCalls

\* storage.createEvent and createdEvents.push; then the next place
CreateEvent(u) ==
  /\ UNCHANGED <<parseVars, csvVars, storyVars, apiVars, clientVars>>
  /\ uploads[u].pc = "event"
  /\ LET up == uploads[u]
         event == Event(InsertEvent(CurrentRow(up), up.places[up.j],
                                    up.member[1], up.location[1]), CreateId(uuidCount))
         up1 == [up EXCEPT !.createdEvents = Append(@, event)]
     IN /\ storage' = [storage EXCEPT !.events = MapSet(@, event.id, event)]
        /\ uploads' = [uploads EXCEPT ![u] = EnterPlace(up1, up.j + 1)]
        /\ geoCalls' = [geoCalls EXCEPT ![u] = CallsAt(@, up1, up.j + 1)]
  /\ uuidCount' = uuidCount + 1

\* after the loop: fs.unlinkSync and res.json with the three counts
UploadFinish(u) ==
  /\ UNCHANGED <<parseVars, csvVars, storyVars, apiVars, clientVars>>
  /\ uploads[u].pc = "loop"
  /\ LoopDone(uploads[u])
  /\ uploads' = [uploads EXCEPT ![u].pc = "done", ![u].onDisk = FALSE,
        ![u].response = <<[status |-> 200,
           message |-> IF uploads[u].kind = "gedcom"
                       THEN "GEDCOM file processed successfully"
                       ELSE "CSV file processed successfully",
           members |-> Len(uploads[u].createdMembers),
           locations |-> Len(uploads[u].createdLocations),
           events |-> Len(uploads[u].createdEvents)]>>]
  /\ UNCHANGED <<storage, uuidCount, geoCalls>>

\* fs.readFileSync or fs.unlinkSync throws (an I/O error on the file): the
\* catch block logs the error and answers 500; it does not unlink
UploadFails(u) ==
  /\ UNCHANGED <<parseVars, csvVars, storyVars, apiVars, clientVars>>
  /\ uploads[u].file # <<>>
  /\ \/ uploads[u].pc = "start"
     \/ uploads[u].pc = "loop" /\ LoopDone(uploads[u])
  /\ uploads' = [uploads EXCEPT ![u].pc = "done", ![u].ioError = TRUE,
        ![u].response = <<[status |-> 500,
           message |-> IF uploads[u].kind = "gedcom"
                       THEN "Failed to process GEDCOM file"
                       ELSE "Failed to process CSV file"]>>]
  /\ UNCHANGED <<storage, uuidCount, geoCalls>>

NextUpload ==
  \/ \E u \in DOMAIN uploads : UploadNoFile(u)
  \/ \E u \in DOMAIN uploads : GedcomRead(u)
  \/ \E u \in DOMAIN uploads : CsvRead(u)
  \/ \E u \in DOMAIN uploads : SkipRecord(u)
  \/ \E u \in DOMAIN uploads : CreateMember(u)
  \/ \E u \in DOMAIN uploads : GeocodeReturn(u)
  \/ \E u \in DOMAIN uploads : CreateLocation(u)
  \/ \E u \in DOMAIN uploads : CreateEvent(u)
  \/ \E u \in DOMAIN uploads : UploadFinish(u)
  \/ \E u \in DOMAIN uploads : UploadFails(u)

SpecUpload == InitUpload /\ [][NextUpload]_vars

\* the steps of a handler that the event loop runs as soon as they are ready:
\* the synchronous start and the continuations of the awaits on storage,
\* whose promises are already resolved.  The fetch of geocodeLocation has no
\* timeout and is not among them.
HandlerStep(u) ==
  \/ UploadNoFile(u)
  \/ GedcomRead(u)
  \/ CsvRead(u)
  \/ SkipRecord(u)
  \/ CreateMember(u)
  \/ CreateLocation(u)
  \/ CreateEvent(u)
  \/ UploadFinish(u)

\* control of u is at a point from which the handler goes on by itself: the
\* state predicate equal to ENABLED <<HandlerStep(u)>>_vars (at "start" one of
\* the three first steps applies, at "loop" the loop ends, skips or creates)
Resumable(u) == uploads[u].pc \in {"start", "loop", "location", "event"}

\* weak fairness of the handler's own steps, WF_vars(HandlerStep(u)); for the
\* steps that compute on the file's text the enabling condition is written
\* out as Resumable(u)
HandlerFair(u) ==
  /\ WF_vars(UploadNoFile(u))
  /\ WF_vars(UploadFinish(u))
  /\ []<>(~Resumable(u)) \/ []<><<HandlerStep(u)>>_vars

\* one upload of a short file beside a request without a file, and a GEDCOM
\* and a CSV upload in flight together
LiveRequests ==
  (Requests({G_Ann, G_NoName}, {R_Ann, R_NoName}, MaxLiveRecords) \X NoFileRequests)
    \cup { <<[kind |-> "gedcom", file |-> <<Join(G_Bob, <<"\n">>)>>],
             [kind |-> "csv", file |-> <<Join(<<CsvHeader, R_Dee>>, <<"\n">>)>>]>> }

InitUploadLive == UploadsArrive(LiveRequests)

SpecUploadLive ==
  InitUploadLive /\ [][NextUpload]_vars /\ \A u \in Uploads : HandlerFair(u)

\* ------------------------------------------------------------------------
\* A CSV text: the client reads it with parseCsv and uploads it to
\* POST /api/upload/csv
\* ------------------------------------------------------------------------
H_Plain == <<"n", "a", "m", "e", ",", "b", "i", "r", "t", "h", "_", "d", "a", "t", "e", ",", "b", "i", "r", "t", "h", "_", "p", "l", "a", "c", "e">>
H_Aliases == <<"N", "a", "m", "e", ",", " ", "b", "i", "r", "t", "h", "d", "a", "t", "e", " ", ",", "b", "i", "r", "t", "h", "_", "d", "a", "t", "e", ",", "d", "e", "a", "t", "h", "_", "p", "l", "a", "c", "e", ",", "d", "e", "a", "t", "h", "p", "l", "a", "c", "e">>
H_NoName == <<"b", "i", "r", "t", "h", "_", "d", "a", "t", "e", ",", "b", "i", "r", "t", "h", "_", "p", "l", "a", "c", "e">>
H_Mixed == <<"n", "a", "m", "e", ",", "d", "e", "a", "t", "h", "_", "d", "a", "t", "e", ",", "b", "i", "r", "t", "h", "p", "l", "a", "c", "e">>

V_Jane == <<"J", "a", "n", "e", " ", "D", "o", "e", ",", "1", "9", "0", "0", ",", "B", "o", "s", "t", "o", "n">>
V_NoName == <<",", "1", "9", "0", "0", ",", "B", "o", "s", "t", "o", "n">>
V_Bob == <<"B", "o", "b">>
V_Cy == <<"C", "y", ",", "1", "9", "0", "1", ",", ",", "R", "o", "m", "e", ",", "O", "s", "l", "o">>
V_Blank == <<" ">>

CsvHeaderLines == {H_Plain, H_Aliases, H_NoName, H_Mixed}

CsvDataLines == {V_Jane, V_NoName, V_Bob, V_Cy, V_Blank}

\* the texts of a header line and at most n further lines
CsvTexts(n) ==
  UNION { { Join(<<h>> \o f, <<"\n">>) : f \in [1..k -> CsvDataLines] } :
            <<h, k>> \in CsvHeaderLines \X (0..n) }

InitCsv ==
  /\ ParseIdle
  /\ StoryIdle
  /\ ApiIdle
  /\ ClientIdle
  /\ csvText \in CsvTexts(MaxCsvRows)
  /\ csvIndividuals = <<>>
  /\ csvPc = "start"
  /\ storage = EmptyStorage
  /\ uuidCount = 0
  /\ uploads = [u \in {"u1"} |-> NewUpload([kind |-> "csv", file |-> <<csvText>>])]
  /\ geoCalls = [u \in {"u1"} |-> <<>>]

\* the call of parseCsv
ParseCsvCall ==
  /\ csvPc = "start"
  /\ csvIndividuals' = ParseCsv(csvText)
  /\ csvPc' = "done"
  /\ UNCHANGED <<csvText, parseVars, serverVars, storyVars, apiVars, clientVars>>

NextCsv ==
  \/ ParseCsvCall
  \/ \E u \in DOMAIN uploads : CsvRead(u)
  \/ \E u \in DOMAIN uploads : SkipRecord(u)
  \/ \E u \in DOMAIN uploads : CreateMember(u)
  \/ \E u \in DOMAIN uploads : GeocodeReturn(u)
  \/ \E u \in DOMAIN uploads : CreateLocation(u)
  \/ \E u \in DOMAIN uploads : CreateEvent(u)
  \/ \E u \in DOMAIN uploads : UploadFinish(u)

SpecCsv == InitCsv /\ [][NextCsv]_vars

\* ------------------------------------------------------------------------
\* A call of generateStoryFromEvents
\* ------------------------------------------------------------------------
M_Ann == [id |-> <<"m", "1">>, name |-> <<"A", "n", "n">>, notes |-> <<>>]
M_Bob == [id |-> <<"m", "2">>, name |-> <<"B", "o", "b">>, notes |-> <<"A", " ", "s", "a", "i", "l", "o", "r", ".">>]

P_Boston == [id |-> <<"l", "1">>, name |-> <<"B", "o", "s", "t", "o", "n">>]
P_Chicago == [id |-> <<"l", "2">>, name |-> <<"C", "h", "i", "c", "a", "g", "o">>]

\* events of Ann, of Bob at a location that is not given, and of a member
\* that is not given; marriage is a type the function does not know
StoryEvents ==
  { [memberId |-> <<"m", "1">>, locationId |-> <<"l", "1">>, eventType |-> S_birth, eventDate |-> <<"1", "9", "0", "0">>],
    [memberId |-> <<"m", "1">>, locationId |-> <<"l", "2">>, eventType |-> S_death, eventDate |-> <<"1", "9", "5", "0">>],
    [memberId |-> <<"m", "1">>, locationId |-> <<"l", "2">>, eventType |-> S_migration, eventDate |-> <<"1", "9", "2", "0">>],
    [memberId |-> <<"m", "1">>, locationId |-> <<"l", "1">>, eventType |-> S_marriage, eventDate |-> <<"1", "9", "2", "5">>],
    [memberId |-> <<"m", "1">>, locationId |-> <<"l", "1">>, eventType |-> S_birth, eventDate |-> Null],
    [memberId |-> <<"m", "2">>, locationId |-> <<"l", "9">>, eventType |-> S_death, eventDate |-> <<"1", "9", "5", "0">>],
    [memberId |-> <<"m", "9">>, locationId |-> <<"l", "1">>, eventType |-> S_birth, eventDate |-> <<"1", "9", "0", "0">>] }

\* the argument lists with at most n events
StoryArgs(n) ==
  { [events |-> f, members |-> <<M_Ann, M_Bob>>, locations |-> <<P_Boston, P_Chicago>>] :
      f \in UNION { [1..k -> StoryEvents] : k \in 0..n } }

InitStory ==
  /\ ParseIdle
  /\ CsvIdle
  /\ ServerIdle
  /\ ApiIdle
  /\ ClientIdle
  /\ storyArgs \in StoryArgs(MaxEvents)
  /\ story = <<>>
  /\ storyPc = "start"

\* the call of generateStoryFromEvents
StoryCall ==
  /\ storyPc = "start"
  /\ story' = GenerateStoryFromEvents(storyArgs.events, storyArgs.members,
                                      storyArgs.locations)
  /\ storyPc' = "done"
  /\ UNCHANGED <<storyArgs, parseVars, serverVars, csvVars, apiVars, clientVars>>

NextStory == StoryCall

SpecStory == InitStory /\ [][NextStory]_vars

\* ------------------------------------------------------------------------
\* MemStorage create / get / update / delete, the same code in each of the
\* six collections
\* ------------------------------------------------------------------------
\* obj[f], undefined when the object has no such property
Field(obj, f) == IF f \in DOMAIN obj THEN obj[f] ELSE Undefined

\* { ...insert, id, createdAt: new Date() }
CreateEntity(insert, id, createdAt) ==
  [f \in DOMAIN insert \cup {"id", "createdAt"} |->
     IF f = "id" THEN id
     ELSE IF f = "createdAt" THEN createdAt ELSE insert[f]]

\* mutant: the stored entity is replaced by the update data
UpdateEntity_Replace(entity, updateData) ==
  [f \in DOMAIN updateData \cup {"id", "createdAt"} |->
     IF f \in DOMAIN updateData THEN updateData[f] ELSE entity[f]]

\* { ...entity, ...updateData }
UpdateEntity(entity, updateData) ==
  [f \in DOMAIN entity \cup DOMAIN updateData |->
     IF f \in DOMAIN updateData THEN updateData[f] ELSE entity[f]]

\* ------------------------------------------------------------------------
\* The insert schemas: a JSON value carries its type
\* ------------------------------------------------------------------------
JString(s) == [t |-> "string", v |-> s]
JNumber(n) == [t |-> "number", v |-> n]
JBoolean(b) == [t |-> "boolean", v |-> b]
JArray(a) == [t |-> "array", v |-> a]
JNull == [t |-> "null", v |-> Null]

\* the columns of each table without id and createdAt (and lastGenerated)
Columns ==
  [familyMembers |->
     [name |-> "string", birthDate |-> "string", deathDate |-> "string",
      birthPlace |-> "string", deathPlace |-> "string", notes |-> "string",
      photos |-> "array"],
   locations |->
     [name |-> "string", latitude |-> "number", longitude |-> "number",
      address |-> "string", locationType |-> "string", timeSpan |-> "string",
      memberCount |-> "number"],
   events |->
     [memberId |-> "string", locationId |-> "string", eventType |-> "string",
      eventDate |-> "string", description |-> "string", notes |-> "string"],
   stories |->
     [title |-> "string", content |-> "string", locationId |-> "string",
      memberIds |-> "array", eventIds |-> "array", isGenerated |-> "boolean"],
   geopackageLayers |->
     [name |-> "string", fileName |-> "string", layerName |-> "string",
      layerType |-> "string", isVisible |-> "boolean", style |-> "object",
      bounds |-> "array"],
   atlasProjects |->
     [name |-> "string", description |-> "string", memberCount |-> "number",
      locationCount |-> "number", storyCount |-> "number", timeSpan |-> "string"]]

\* the notNull() columns without a default
NotNull ==
  [familyMembers |-> {"name"},
   locations |-> {"name", "latitude", "longitude"},
   events |-> {"eventType"},
   stories |-> {"title", "content"},
   geopackageLayers |-> {"name", "fileName", "layerName", "layerType"},
   atlasProjects |-> {"name"}]

\* mutant: a column that may be null may hold a value of any type
SchemaAccepts_LaxOptional(c, body) ==
  /\ body # <<>>
  /\ \A f \in NotNull[c] : f \in DOMAIN body[1] /\ body[1][f].t = Columns[c][f]

\* insertXSchema.parse(req.body) does not throw: the body is an object (a
\* request without one has the empty sequence), every notNull column is
\* present with its type, every other column is absent, null or of its type
SchemaAccepts(c, body) ==
  /\ body # <<>>
  /\ \A f \in NotNull[c] : f \in DOMAIN body[1] /\ body[1][f].t = Columns[c][f]
  /\ \A f \in (DOMAIN Columns[c] \ NotNull[c]) \cap DOMAIN body[1] :
       body[1][f].t \in {Columns[c][f], "null"}

\* what parse returns: the properties of the body that are columns
SchemaParse(c, body) ==
  [f \in DOMAIN body[1] \cap DOMAIN Columns[c] |-> body[1][f]]

\* ------------------------------------------------------------------------
\* registerRoutes: the collection routes.  A path is its literal part and
\* the value of its parameter, when it has one
\* ------------------------------------------------------------------------
Route(method, path, param, handler, collection) ==
  [method |-> method, path |-> path, param |-> param, handler |-> handler,
   collection |-> collection]

\* the routes in the order of their registration
Routes ==
  << Route("GET", "/api/family-members", FALSE, "list", "familyMembers"),
     Route("GET", "/api/family-members", TRUE, "get", "familyMembers"),
     Route("POST", "/api/family-members", FALSE, "create", "familyMembers"),
     Route("GET", "/api/locations", FALSE, "list", "locations"),
     Route("POST", "/api/locations", FALSE, "create", "locations"),
     Route("GET", "/api/events", FALSE, "list", "events"),
     Route("GET", "/api/events/member", TRUE, "eventsByMember", "events"),
     Route("POST", "/api/events", FALSE, "create", "events"),
     Route("GET", "/api/stories", FALSE, "list", "stories"),
     Route("POST", "/api/stories", FALSE, "create", "stories"),
     Route("POST", "/api/stories/generate", FALSE, "generate", "stories"),
     Route("GET", "/api/geopackage-layers", FALSE, "list", "geopackageLayers"),
     Route("POST", "/api/geopackage-layers", FALSE, "create", "geopackageLayers"),
     Route("POST", "/api/upload/gedcom", FALSE, "uploadGedcom", "familyMembers"),
     Route("POST", "/api/upload/csv", FALSE, "uploadCsv", "familyMembers"),
     Route("POST", "/api/geocode", FALSE, "geocode", "locations"),
     Route("GET", "/api/atlas-projects", FALSE, "list", "atlasProjects"),
     Route("POST", "/api/atlas-projects", FALSE, "create", "atlasProjects") >>

\* the request has the route's method and path
RouteMatches(route, req) ==
  /\ route.method = req.method
  /\ route.path = req.path
  /\ route.param = (req.param # <<>>)

\* the first registered route that matches, as a sequence of length 0 or 1
RouteOf(req) ==
  LET hits == {k \in 1..Len(Routes) : RouteMatches(Routes[k], req)}
  IN IF hits = {} THEN <<>>
     ELSE <<Routes[CHOOSE k \in hits : \A h \in hits : k <= h]>>

\* the message of the 400 answer of each POST route
InvalidMessage ==
  [familyMembers |-> "Invalid family member data",
   locations |-> "Invalid location data",
   events |-> "Invalid event data",
   stories |-> "Invalid story data",
   geopackageLayers |-> "Invalid geopackage layer data",
   atlasProjects |-> "Invalid atlas project data"]

\* getEventsByMember: the events with event.memberId === memberId
GetEventsByMember(m, memberId) ==
  SelectSeq(MapValues(m), LAMBDA event :
    "memberId" \in DOMAIN event /\ event.memberId = JString(memberId))

\* getEventsByLocation: the events with event.locationId === locationId
GetEventsByLocation(m, locationId) ==
  SelectSeq(MapValues(m), LAMBDA event :
    "locationId" \in DOMAIN event /\ event.locationId = JString(locationId))

\* ------------------------------------------------------------------------
\* Requests to the collection routes
\* ------------------------------------------------------------------------
T_Ann == <<"A", "n", "n">>
T_m1 == <<"m", "1">>
T_m2 == <<"m", "2">>
T_l1 == <<"l", "1">>
T_x9 == <<"x", "9">>

\* a body with the notNull columns of every table, and with id and createdAt
B_All(memberId) ==
  [name |-> JString(T_Ann), latitude |-> JNumber(41), longitude |-> JNumber(12),
   eventType |-> JString(S_birth), title |-> JString(T_Ann),
   content |-> JString(T_Ann), fileName |-> JString(T_Ann),
   layerName |-> JString(T_Ann), layerType |-> JString(T_Ann),
   memberId |-> JString(memberId), locationId |-> JString(T_l1),
   birthDate |-> JNull, id |-> JString(T_x9), createdAt |-> JNumber(99)]

\* the same with a number for notes and for isVisible
B_BadOptional ==
  [f \in DOMAIN B_All(T_m1) \cup {"notes", "isVisible"} |->
     IF f \in {"notes", "isVisible"} THEN JNumber(1) ELSE B_All(T_m1)[f]]

\* a number where every table wants a string
B_BadType ==
  [name |-> JNumber(5), eventType |-> JNumber(5), title |-> JNumber(5),
   fileName |-> JNumber(5)]

\* the bodies of the POST requests; the empty sequence is a request without one
Bodies ==
  {<<B_All(T_m1)>>, <<B_All(T_m2)>>, <<B_BadOptional>>, <<B_BadType>>, <<>>}

ApiRequest(method, path, param, body) ==
  [method |-> method, path |-> path, param |-> param, body |-> body]

CollectionPaths == {Routes[k].path : k \in {j \in 1..Len(Routes) : Routes[j].handler = "create"}}

\* a path with a parameter and the values the parameter takes: the first id
\* handed out and the ids the bodies name
ParamPaths ==
  {<<"/api/family-members", CreateId(0)>>, <<"/api/family-members", T_m1>>,
   <<"/api/events/member", T_m1>>, <<"/api/events/member", T_m2>>,
   <<"/api/events/location", T_l1>>}

ApiRequests ==
  {ApiRequest("POST", p, <<>>, b) : p \in CollectionPaths, b \in Bodies}
  \cup {ApiRequest("GET", p, <<>>, <<>>) : p \in CollectionPaths}
  \cup {ApiRequest("GET", pp[1], <<pp[2]>>, <<>>) : pp \in ParamPaths}

Respond(req, route, status, json) ==
  <<[request |-> req, route |-> route, before |-> storage,
     response |-> <<[status |-> status, json |-> json]>>]>>

InitApi ==
  /\ ParseIdle
  /\ CsvIdle
  /\ StoryIdle
  /\ ClientIdle
  /\ ServerIdle
  /\ ApiIdle

\* POST /api/<collection>: parse, create, 201; a throw of parse is a 400
CreateRoute(req) ==
  /\ RouteOf(req) # <<>>
  /\ RouteOf(req)[1].handler = "create"
  /\ LET c == RouteOf(req)[1].collection
     IN IF SchemaAccepts(c, req.body)
        THEN /\ uuidCount < MaxPosts
             /\ LET id == CreateId(uuidCount)
                    entity == CreateEntity(SchemaParse(c, req.body), id, now)
                IN /\ storage' = [storage EXCEPT ![c] = MapSet(@, id, entity)]
                   /\ lastCall' = Respond(req, RouteOf(req), 201, entity)
             /\ uuidCount' = uuidCount + 1
             /\ now' = now + 1
        ELSE /\ lastCall' = Respond(req, RouteOf(req), 400,
                                    [message |-> InvalidMessage[c]])
             /\ UNCHANGED <<storage, uuidCount, now>>
  /\ UNCHANGED <<uploads, geoCalls, ledger>>
  /\ UNCHANGED <<parseVars, csvVars, storyVars, clientVars>>

\* GET /api/<collection>: the values of the collection
ListRoute(req) ==
  /\ RouteOf(req) # <<>>
  /\ RouteOf(req)[1].handler = "list"
  /\ lastCall' = Respond(req, RouteOf(req), 200,
                         MapValues(storage[RouteOf(req)[1].collection]))
  /\ UNCHANGED <<serverVars, now, ledger>>
  /\ UNCHANGED <<parseVars, csvVars, storyVars, clientVars>>

\* GET /api/family-members/:id
GetRoute(req) ==
  /\ RouteOf(req) # <<>>
  /\ RouteOf(req)[1].handler = "get"
  /\ LET member == MapGet(storage[RouteOf(req)[1].collection], req.param[1])
     IN lastCall' =
          IF member = Undefined
          THEN Respond(req, RouteOf(req), 404, [message |-> "Family member not found"])
          ELSE Respond(req, RouteOf(req), 200, member)
  /\ UNCHANGED <<serverVars, now, ledger>>
  /\ UNCHANGED <<parseVars, csvVars, storyVars, clientVars>>

\* GET /api/events/member/:memberId
EventsByMemberRoute(req) ==
  /\ RouteOf(req) # <<>>
  /\ RouteOf(req)[1].handler = "eventsByMember"
  /\ lastCall' = Respond(req, RouteOf(req), 200,
                         GetEventsByMember(storage.events, req.param[1]))
  /\ UNCHANGED <<serverVars, now, ledger>>
  /\ UNCHANGED <<parseVars, csvVars, storyVars, clientVars>>

\* a request no route of registerRoutes matches: none of its handlers runs
\* and none of them sends a response
NoRoute(req) ==
  /\ RouteOf(req) = <<>>
  /\ lastCall' = <<[request |-> req, route |-> <<>>, before |-> storage,
                    response |-> <<>>]>>
  /\ UNCHANGED <<serverVars, now, ledger>>
  /\ UNCHANGED <<parseVars, csvVars, storyVars, clientVars>>

NextApi ==
  \/ \E req \in ApiRequests : CreateRoute(req)
  \/ \E req \in ApiRequests : ListRoute(req)
  \/ \E req \in ApiRequests : GetRoute(req)
  \/ \E req \in ApiRequests : EventsByMemberRoute(req)
  \/ \E req \in ApiRequests : NoRoute(req)

SpecApi == InitApi /\ [][NextApi]_vars

\* ------------------------------------------------------------------------
\* Calls of MemStorage.  A method body has no await, so it runs from its
\* first statement to its return without another call in between
\* ------------------------------------------------------------------------
\* three columns of each table: the first two are given to create
SampleColumns ==
  [familyMembers |-> <<"name", "birthDate", "notes">>,
   locations |-> <<"name", "address", "timeSpan">>,
   events |-> <<"eventType", "eventDate", "notes">>,
   stories |-> <<"title", "content", "locationId">>,
   geopackageLayers |-> <<"name", "fileName", "layerName">>,
   atlasProjects |-> <<"name", "description", "timeSpan">>]

T_Bob == <<"B", "o", "b">>
T_Cy == <<"C", "y">>
T_1900 == <<"1", "9", "0", "0">>
T_1950 == <<"1", "9", "5", "0">>

\* the argument of a create call on collection c
InsertOf(c) ==
  LET t == SampleColumns[c]
  IN [f \in {t[1], t[2]} |-> IF f = t[1] THEN T_Ann ELSE T_1900]

\* the two arguments of update calls on collection c: they share the first
\* column, and the second one sets a column the created entity lacks
UpdatesOf(c) ==
  LET t == SampleColumns[c]
  IN { [f \in {t[1], t[2]} |-> IF f = t[1] THEN T_Bob ELSE T_1950],
       [f \in {t[1], t[3]} |-> T_Cy] }

\* mutant: an update of an id that is not stored stores the update data
UpdateIn_Upsert(m, id, updateData) ==
  IF MapGet(m, id) = Undefined
  THEN [map |-> MapSet(m, id, updateData), result |-> <<updateData>>]
  ELSE LET updated == UpdateEntity(MapGet(m, id), updateData)
       IN [map |-> MapSet(m, id, updated), result |-> <<updated>>]

\* updateX(id, updateData): the map afterwards and the value returned, the
\* empty sequence for undefined
UpdateIn(m, id, updateData) ==
  IF MapGet(m, id) = Undefined
  THEN [map |-> m, result |-> <<>>]
  ELSE LET updated == UpdateEntity(MapGet(m, id), updateData)
       IN [map |-> MapSet(m, id, updated), result |-> <<updated>>]

\* the collection after c in the class
NextCollection ==
  [familyMembers |-> "locations", locations |-> "events", events |-> "stories",
   stories |-> "geopackageLayers", geopackageLayers |-> "atlasProjects",
   atlasProjects |-> "familyMembers"]

\* the calls of one run address the collection of the first create and the
\* one after it
Addressed ==
  IF ledger = <<>> THEN Collections
  ELSE {ledger[1].collection, NextCollection[ledger[1].collection]}

\* the ids of the calls: every id created so far and one that never was
CallIds == {ledger[k].id : k \in 1..Len(ledger)} \cup {T_x9}

\* the update data the run has already passed to a successful update
UsedUpdates == UNION { {ledger[k].updates[n] : n \in 1..Len(ledger[k].updates)} :
                         k \in 1..Len(ledger) }

StoreCall(op, c, id, arg, result) ==
  <<[op |-> op, collection |-> c, id |-> id, arg |-> arg, result |-> result,
     before |-> storage]>>

\* what the ledger keeps of id: its collection, the entity create returned,
\* the update data applied to it in order, and whether it was deleted
LedgerEntry(id, c, entity) ==
  [id |-> id, collection |-> c, created |-> entity, updates |-> <<>>,
   deleted |-> FALSE]

Stored(c, id) == MapHas(storage[c], id)

InitStore == InitApi

\* createX(insert)
StoreCreate(c) ==
  /\ c \in Addressed
  /\ uuidCount < MaxEntities
  /\ LET id == CreateId(uuidCount)
         entity == CreateEntity(InsertOf(c), id, now)
     IN /\ storage' = [storage EXCEPT ![c] = MapSet(@, id, entity)]
        /\ lastCall' = StoreCall("create", c, <<>>, <<InsertOf(c)>>, <<entity>>)
        /\ ledger' = Append(ledger, LedgerEntry(id, c, entity))
  /\ uuidCount' = uuidCount + 1
  /\ now' = now + 1
  /\ UNCHANGED <<uploads, geoCalls>>
  /\ UNCHANGED <<parseVars, csvVars, storyVars, clientVars>>

\* updateX(id, updateData)
StoreUpdate(c, id, updateData) ==
  /\ c \in Addressed
  /\ Stored(c, id) => updateData \notin UsedUpdates
  /\ LET r == UpdateIn(storage[c], id, updateData)
     IN /\ storage' = [storage EXCEPT ![c] = r.map]
        /\ lastCall' = StoreCall("update", c, <<id>>, <<updateData>>, r.result)
        /\ ledger' = [k \in 1..Len(ledger) |->
                        IF ledger[k].id = id /\ r.result # <<>>
                        THEN [ledger[k] EXCEPT !.updates = Append(@, updateData)]
                        ELSE ledger[k]]
  /\ UNCHANGED <<uuidCount, now, uploads, geoCalls>>
  /\ UNCHANGED <<parseVars, csvVars, storyVars, clientVars>>

\* deleteX(id): Map.prototype.delete returns whether the key was present
StoreDelete(c, id) ==
  /\ c \in Addressed
  /\ Stored(c, id) => \A k \in 1..Len(ledger) : ~ledger[k].deleted
  /\ storage' = [storage EXCEPT ![c] = MapDelete(@, id)]
  /\ lastCall' = StoreCall("delete", c, <<id>>, <<>>, <<MapHas(storage[c], id)>>)
  /\ ledger' = [k \in 1..Len(ledger) |->
                  IF ledger[k].id = id /\ Stored(c, id)
                  THEN [ledger[k] EXCEPT !.deleted = TRUE] ELSE ledger[k]]
  /\ UNCHANGED <<uuidCount, now, uploads, geoCalls>>
  /\ UNCHANGED <<parseVars, csvVars, storyVars, clientVars>>

\* getX(id): the empty sequence for undefined
StoreGet(c, id) ==
  /\ c \in Addressed
  /\ lastCall' = StoreCall("get", c, <<id>>, <<>>,
                           IF MapGet(storage[c], id) = Undefined THEN <<>>
                           ELSE <<MapGet(storage[c], id)>>)
  /\ UNCHANGED <<serverVars, now, ledger>>
  /\ UNCHANGED <<parseVars, csvVars, storyVars, clientVars>>

\* getXs()
StoreList(c) ==
  /\ c \in Addressed
  /\ lastCall' = StoreCall("list", c, <<>>, <<>>, MapValues(storage[c]))
  /\ UNCHANGED <<serverVars, now, ledger>>
  /\ UNCHANGED <<parseVars, csvVars, storyVars, clientVars>>

NextStore ==
  \/ \E c \in Collections : StoreCreate(c)
  \/ \E c \in Collections, id \in CallIds :
       \E updateData \in UpdatesOf(c) : StoreUpdate(c, id, updateData)
  \/ \E c \in Collections, id \in CallIds : StoreDelete(c, id)
  \/ \E c \in Collections, id \in CallIds : StoreGet(c, id)
  \/ \E c \in Collections : StoreList(c)

SpecStore == InitStore /\ [][NextStore]_vars

\* ------------------------------------------------------------------------
\* The home page: Home's state and query data, and the effects of MapView.
\* An event handler runs with the render it causes and with the effects of
\* that commit.
\* ------------------------------------------------------------------------
\* useState(1920) of Home
InitialTimelineYear == 1920

\* timelineBounds.min, the least value of the slider
TimelineMin == 1840

\* the layerVisibility Home starts with
InitialLayerVisibility ==
  [familyLocations |-> TRUE, migrationPaths |-> TRUE, historicalMaps |-> FALSE,
   cemeteries |-> FALSE, customGeopackage |-> TRUE]

\* location.timeSpan.match(/\d{4}/): the first run of four digits, or null
YearMatch(s) ==
  LET hits == {i \in 1..(Len(s) - 3) : \A k \in i..(i + 3) : IsDigit(s[k], 10)}
  IN IF hits = {} THEN Null
     ELSE LET i == CHOOSE h \in hits : \A k \in hits : h <= k IN SubSeq(s, i, i + 3)

\* the callback of locations.filter: no timeSpan, no year in it, or a year
\* that is not after timelineYear
PassesTimeline(location, year) ==
  IF ~Truthy(location.timeSpan) THEN TRUE
  ELSE IF YearMatch(location.timeSpan) = Null THEN TRUE
  ELSE ParseInt(YearMatch(location.timeSpan))[1] <= year

FilteredLocations(locations, year) ==
  SelectSeq(locations, LAMBDA location : PassesTimeline(location, year))

\* a.timeSpan ? parseInt(a.timeSpan.match(/\d{4}/)?.[0] || '0') : 0
PathYear(location) ==
  IF ~Truthy(location.timeSpan) THEN 0
  ELSE IF YearMatch(location.timeSpan) = Null THEN 0
  ELSE ParseInt(YearMatch(location.timeSpan))[1]

\* filteredLocations.sort((a, b) => aYear - bYear), a stable sort
RECURSIVE InsertByYear(_, _)
InsertByYear(sorted, location) ==
  IF sorted = <<>> THEN <<location>>
  ELSE IF PathYear(sorted[Len(sorted)]) - PathYear(location) <= 0
  THEN Append(sorted, location)
  ELSE Append(InsertByYear(SubSeq(sorted, 1, Len(sorted) - 1), location),
              sorted[Len(sorted)])

RECURSIVE SortByYear(_)
SortByYear(locations) ==
  IF locations = <<>> THEN <<>>
  ELSE InsertByYear(SortByYear(SubSeq(locations, 1, Len(locations) - 1)),
                    locations[Len(locations)])

\* the layers of the Leaflet map: the tile layer, L.marker of a location and
\* L.polyline through the locations of a path
TileLayer == [kind |-> "tile", of |-> <<>>]
Marker(location) == [kind |-> "marker", of |-> <<location.id>>]
Polyline(path) == [kind |-> "polyline", of |-> [k \in 1..Len(path) |-> path[k].id]]

\* the markers the second effect creates, and the migration path behind them
NewMarkers(visibility, year, locations) ==
  LET filteredLocations == FilteredLocations(locations, year)
  IN [k \in 1..Len(filteredLocations) |-> Marker(filteredLocations[k])]
       \o (IF visibility.migrationPaths /\ Len(filteredLocations) > 1
           THEN <<Polyline(SortByYear(filteredLocations))>>
           ELSE <<>>)

\* mapInstanceRef.current.removeLayer(marker) for each marker of markersRef
RemoveLayers(layers, markers) ==
  SelectSeq(layers, LAMBDA layer : ~\E k \in 1..Len(markers) : markers[k] = layer)

\* MapView's refs and state after the first effect ran at mount: with Leaflet
\* loaded it creates the map and calls setIsMapLoaded(true)
MapEffect(view, l) ==
  IF ~l \/ view.isMapLoaded THEN view
  ELSE [view EXCEPT !.mapInstance = <<"map">>, !.mapLayers = <<TileLayer>>,
                    !.isMapLoaded = TRUE]

\* the cleanup the first effect returned when it created the map; React runs
\* it in the first commit that renders isMapLoaded = true, since the effect's
\* dependency changed, and the effect then returns at once
MapCleanup(view) ==
  IF view.isMapLoaded /\ view.mapInstance # <<>>
  THEN [view EXCEPT !.mapInstance = <<>>, !.mapLayers = <<>>]
  ELSE view

\* the second effect: it returns before it clears the markers when there is
\* no map, no Leaflet or the familyLocations layer is hidden
MarkersEffect(view, l, visibility, year, locations) ==
  IF view.mapInstance = <<>> \/ ~l \/ ~visibility.familyLocations THEN view
  ELSE LET markers == NewMarkers(visibility, year, locations)
       IN [view EXCEPT !.markersRef = markers,
                       !.mapLayers = RemoveLayers(@, view.markersRef) \o markers]

MapViewState ==
  [mapInstance |-> mapInstance, isMapLoaded |-> isMapLoaded,
   markersRef |-> markersRef, mapLayers |-> mapLayers]

\* the refs and state of MapView become those of view
SetMapView(view) ==
  /\ mapInstance' = view.mapInstance
  /\ isMapLoaded' = view.isMapLoaded
  /\ markersRef' = view.markersRef
  /\ mapLayers' = view.mapLayers

\* a commit after Home rendered again: handleLocationSelect is a new function
\* in every render of Home, so the second effect runs in each of them
Commit(visibility, year, locations) ==
  SetMapView(MarkersEffect(MapCleanup(MapViewState), leaflet, visibility, year, locations))

\* the locations and the stories the queries can hold
LocationPool ==
  { [id |-> "l1", timeSpan |-> <<"1", "9", "0", "0">>],
    [id |-> "l2", timeSpan |-> <<"c", ".", " ", "1", "9", "5", "0">>],
    [id |-> "l3", timeSpan |-> Null],
    [id |-> "l4", timeSpan |-> <<"n", ".", "d", ".">>] }

LocationLists(n) ==
  UNION { { f \in [1..k -> LocationPool] : \A a, b \in 1..k : a # b => f[a] # f[b] }
          : k \in 0..n }

StoryList(n) == [k \in 1..n |-> DecimalString(k)]

TimelineYears == {TimelineMin, 1900, InitialTimelineYear, 1950}

\* Home has mounted with what the query cache holds, and MapView's effects
\* of the first commit have run, with Leaflet loaded or not yet
InitHome ==
  /\ ParseIdle
  /\ CsvIdle
  /\ StoryIdle
  /\ ServerIdle
  /\ ApiIdle
  /\ layerVisibility = InitialLayerVisibility
  /\ timelineYear = InitialTimelineYear
  /\ currentStoryIndex = 0
  /\ leaflet \in BOOLEAN
  /\ homeLocations \in LocationLists(MaxLocations)
  /\ stories \in {StoryList(n) : n \in 0..MaxStories}
  /\ LET unmounted == [mapInstance |-> <<>>, isMapLoaded |-> FALSE,
                       markersRef |-> <<>>, mapLayers |-> <<>>]
         view == MarkersEffect(MapEffect(unmounted, leaflet), leaflet,
                               layerVisibility, timelineYear, homeLocations)
     IN /\ mapInstance = view.mapInstance
        /\ isMapLoaded = view.isMapLoaded
        /\ markersRef = view.markersRef
        /\ mapLayers = view.mapLayers

\* import('leaflet') resolves and sets L; nothing renders
LeafletLoaded ==
  /\ UNCHANGED <<parseVars, serverVars, csvVars, storyVars, apiVars>>
  /\ ~leaflet
  /\ leaflet' = TRUE
  /\ UNCHANGED <<layerVisibility, timelineYear, homeLocations, stories,
                 currentStoryIndex, mapInstance, isMapLoaded, markersRef, mapLayers>>

\* MapView renders again after setIsMapLoaded(true); its props are the same,
\* so of its effects only the first one's cleanup runs
MapLoadedRender ==
  /\ UNCHANGED <<parseVars, serverVars, csvVars, storyVars, apiVars>>
  /\ isMapLoaded /\ mapInstance # <<>>
  /\ SetMapView(MapCleanup(MapViewState))
  /\ UNCHANGED <<layerVisibility, timelineYear, homeLocations, stories,
                 currentStoryIndex, leaflet>>

\* handleLayerToggle(layerName, visible)
LayerToggle(layerName, visible) ==
  /\ UNCHANGED <<parseVars, serverVars, csvVars, storyVars, apiVars>>
  /\ layerVisibility' = [layerVisibility EXCEPT ![layerName] = visible]
  /\ Commit(layerVisibility', timelineYear, homeLocations)
  /\ UNCHANGED <<timelineYear, homeLocations, stories, currentStoryIndex, leaflet>>

\* handleTimelineChange(year), from the slider's onChange
TimelineChange(year) ==
  /\ UNCHANGED <<parseVars, serverVars, csvVars, storyVars, apiVars>>
  /\ year # timelineYear
  /\ timelineYear' = year
  /\ Commit(layerVisibility, year, homeLocations)
  /\ UNCHANGED <<layerVisibility, homeLocations, stories, currentStoryIndex, leaflet>>

\* the query of /api/locations returns with one more location
LocationsUpdate(location) ==
  /\ UNCHANGED <<parseVars, serverVars, csvVars, storyVars, apiVars>>
  /\ Len(homeLocations) < MaxLocations
  /\ \A k \in 1..Len(homeLocations) : homeLocations[k] # location
  /\ homeLocations' = Append(homeLocations, location)
  /\ Commit(layerVisibility, timelineYear, homeLocations')
  /\ UNCHANGED <<layerVisibility, timelineYear, stories, currentStoryIndex, leaflet>>

\* the query of /api/stories returns with one more story
StoriesUpdate ==
  /\ UNCHANGED <<parseVars, serverVars, csvVars, storyVars, apiVars>>
  /\ Len(stories) < MaxStories
  /\ stories' = StoryList(Len(stories) + 1)
  /\ Commit(layerVisibility, timelineYear, homeLocations)
  /\ UNCHANGED <<layerVisibility, timelineYear, homeLocations, currentStoryIndex, leaflet>>

\* const currentStory = stories[currentStoryIndex] || null
CurrentStory ==
  IF currentStoryIndex \in 0..(Len(stories) - 1)
  THEN <<stories[currentStoryIndex + 1]>> ELSE <<>>

\* StoryPanel shows its two buttons, and they are not disabled
ButtonsEnabled == CurrentStory # <<>> /\ Len(stories) # 0 /\ ~(Len(stories) <= 1)

\* mutant: the index is not wrapped
PreviousIndex_NoWrap(prev, length) == prev - 1

\* (prev - 1 + stories.length) % stories.length
PreviousIndex(prev, length) == (prev - 1 + length) % length

\* (prev + 1) % stories.length
NextIndex(prev, length) == (prev + 1) % length

\* nextStory, from the click on the right button
NextStoryClick ==
  /\ UNCHANGED <<parseVars, serverVars, csvVars, storyVars, apiVars>>
  /\ ButtonsEnabled
  /\ currentStoryIndex' = NextIndex(currentStoryIndex, Len(stories))
  /\ Commit(layerVisibility, timelineYear, homeLocations)
  /\ UNCHANGED <<layerVisibility, timelineYear, homeLocations, stories, leaflet>>

\* previousStory, from the click on the left button
PreviousStoryClick ==
  /\ UNCHANGED <<parseVars, serverVars, csvVars, storyVars, apiVars>>
  /\ ButtonsEnabled
  /\ currentStoryIndex' = PreviousIndex(currentStoryIndex, Len(stories))
  /\ Commit(layerVisibility, timelineYear, homeLocations)
  /\ UNCHANGED <<layerVisibility, timelineYear, homeLocations, stories, leaflet>>

NextHome ==
  \/ LeafletLoaded
  \/ MapLoadedRender
  \/ \E layerName \in DOMAIN InitialLayerVisibility, visible \in BOOLEAN :
       LayerToggle(layerName, visible)
  \/ \E year \in TimelineYears : TimelineChange(year)
  \/ \E location \in LocationPool : LocationsUpdate(location)
  \/ StoriesUpdate
  \/ NextStoryClick
  \/ PreviousStoryClick

SpecHome == InitHome /\ [][NextHome]_vars

\* ========================================================================
\* Claims about parseGedcom (checked under SpecParse)
\* ========================================================================
\* a level-0 line that opens an individual block
IsIndiLine(line) ==
  LineLevel(line) = <<0>> /\ LineTag(line) # Undefined /\ Includes(LineTag(line), S_INDI)

IdOf(r) == r.id

\* C1: a text with N level-0 INDI lines yields exactly N individuals, one per
\* INDI line and in file order, none missing and none emitted twice.
C1_OneIndividualPerIndiBlock ==
  pc = "done" =>
    LET opened == SelectSeq(lines, IsIndiLine)
    IN  [k \in 1..Len(individuals) |-> IdOf(individuals[k])]
          = [k \in 1..Len(opened) |-> LineTag(opened[k])]

\* lines a..b hold no level-0 line
NoLevel0(ls, a, b) == \A m \in a..b : LineLevel(ls[m]) # <<0>>

\* line k is the level-1 line evTag and the two lines after it are its
\* level-2 DATE and PLAC lines, in either order
EventWithBoth(ls, k, evTag) ==
  /\ k + 2 <= Len(ls)
  /\ LineLevel(ls[k]) = <<1>> /\ LineTag(ls[k]) = evTag
  /\ LineLevel(ls[k + 1]) = <<2>> /\ LineLevel(ls[k + 2]) = <<2>>
  /\ {LineTag(ls[k + 1]), LineTag(ls[k + 2])} = {S_DATE, S_PLAC}

ValueUnder(ls, k, tag) ==
  IF LineTag(ls[k + 1]) = tag THEN LineValue(ls[k + 1]) ELSE LineValue(ls[k + 2])

\* line k is the only evTag line of the individual block opened at line i
OnlyEventOfBlock(ls, i, k, evTag) ==
  \A m \in (i + 1)..Len(ls) :
    (NoLevel0(ls, i + 1, m) /\ LineLevel(ls[m]) = <<1>> /\ LineTag(ls[m]) = evTag) => m = k

\* the individual block opened at line i holds, at line k, an event with both
\* a DATE and a PLAC
BlockEventWithBoth(ls, i, k, evTag) ==
  /\ i < k
  /\ IsIndiLine(ls[i])
  /\ EventWithBoth(ls, k, evTag)
  /\ NoLevel0(ls, i + 1, k + 2)
  /\ OnlyEventOfBlock(ls, i, k, evTag)

\* C2: an individual whose BIRT (resp. DEAT) block holds both a DATE and a
\* PLAC line, in either order, is emitted with birthDate and birthPlace
\* (resp. deathDate and deathPlace) equal to the values of the two lines.
C2_EventKeepsDateAndPlace ==
  pc = "done" =>
    \A i \in 1..Len(lines), k \in 1..Len(lines) :
      /\ BlockEventWithBoth(lines, i, k, S_BIRT) =>
           \E n \in 1..Len(individuals) :
             /\ individuals[n].id = LineTag(lines[i])
             /\ individuals[n].birthDate = ValueUnder(lines, k, S_DATE)
             /\ individuals[n].birthPlace = ValueUnder(lines, k, S_PLAC)
      /\ BlockEventWithBoth(lines, i, k, S_DEAT) =>
           \E n \in 1..Len(individuals) :
             /\ individuals[n].id = LineTag(lines[i])
             /\ individuals[n].deathDate = ValueUnder(lines, k, S_DATE)
             /\ individuals[n].deathPlace = ValueUnder(lines, k, S_PLAC)

\* C3: parseGedcom raises no error whatever the text, and a line whose level
\* is not a number changes none of the parser state.
C3_NoErrorBadLevelSkipped ==
  /\ pc # "threw"
  /\ \A k \in 1..Len(lines) :
       LineLevel(lines[k]) = NaN => ParseLineStep(ParserState, lines[k]) = ParserState

\* ========================================================================
\* Claims about the upload handlers (checked under SpecUpload)
\* ========================================================================
\* the records of the uploaded file, in file order
AllRows(up) ==
  IF up.kind = "gedcom" THEN [k \in 1..Len(up.members) |-> GedcomRow(up.members[k])]
  ELSE [k \in 1..(Len(up.lines) - 1) |-> CsvRow(up.headers, up.lines[k + 1])]

HasName(row) == Truthy(row.name)

\* the records a member is stored for
NamedRows(up) == SelectSeq(AllRows(up), HasName)

\* the (person, role) pairs with a non-empty place of the n-th stored person
PairsOfRow(named, n) ==
  (IF Truthy(named[n].placeOfBirth)
   THEN <<[memberIdx |-> n, role |-> <<"b", "i", "r", "t", "h">>,
           place |-> named[n].placeOfBirth, date |-> named[n].dateOfBirth]>>
   ELSE <<>>)
  \o
  (IF Truthy(named[n].placeOfDeath)
   THEN <<[memberIdx |-> n, role |-> <<"d", "e", "a", "t", "h">>,
           place |-> named[n].placeOfDeath, date |-> named[n].dateOfDeath]>>
   ELSE <<>>)

\* all of them in source order: records in file order, birth before death
RolePairs(up) ==
  LET named == NamedRows(up) IN Flatten([n \in 1..Len(named) |-> PairsOfRow(named, n)])

\* the calls of a log that found a place
Matches(calls) == {k \in 1..Len(calls) : calls[k].outcome = "match"}
Failures(calls) == {k \in 1..Len(calls) : calls[k].outcome \in {"empty", "error"}}

\* the index of the n-th call that found a place
NthMatch(calls, n) ==
  CHOOSE k \in Matches(calls) : Cardinality({m \in Matches(calls) : m <= k}) = n

Answered(u) == uploads[u].pc = "done"
Succeeded(u) == Answered(u) /\ uploads[u].response[1].status = 200

\* the upload carried a file the handler processes (a CSV needs two lines,
\* and the file system serves the handler's read and unlink)
Processable(up) ==
  /\ up.file # <<>>
  /\ ~up.ioError
  /\ up.kind = "csv" => Len(CsvLines(up.file[1])) >= 2

\* C4: when the geocoder errors or returns no result for a place, no location
\* and no event is created for it, the member is still created and counted,
\* the remaining places and records are processed, and the upload answers
\* with success.
C4_GeocodeFailureSkipsPlaceOnly ==
  \A u \in DOMAIN uploads :
    LET up == uploads[u]
        calls == geoCalls[u]
    IN /\ Len(up.createdLocations) <= Cardinality(Matches(calls))
       /\ Len(up.createdEvents) <= Cardinality(Matches(calls))
       /\ (Answered(u) /\ Processable(up)) =>
            /\ up.response[1].status = 200
            /\ up.response[1].members = Len(NamedRows(up))
            /\ Len(calls) = Len(RolePairs(up))
            /\ up.response[1].locations = Len(calls) - Cardinality(Failures(calls))
            /\ up.response[1].events = Len(calls) - Cardinality(Failures(calls))

\* an answered upload in which one call errored, one found nothing and a
\* later one found its place
C4_Witness ==
  \E u \in DOMAIN uploads :
    /\ Succeeded(u)
    /\ \E a, b, c \in 1..Len(geoCalls[u]) :
         /\ a < c /\ b < c
         /\ geoCalls[u][a].outcome = "error"
         /\ geoCalls[u][b].outcome = "empty"
         /\ geoCalls[u][c].outcome = "match"
    /\ uploads[u].response[1].members > uploads[u].response[1].events

InStore(m, e) == \E k \in 1..Len(m) : m[k] = e

\* C5: every event in the store was created by an upload, and its memberId
\* and locationId are those of a member and a location the same upload
\* created before it, both present in the store.
C5_EventReferencesOwnRun ==
  /\ \A k \in 1..Len(MapValues(storage.events)) :
       \E u \in DOMAIN uploads : InStore(uploads[u].createdEvents, MapValues(storage.events)[k])
  /\ \A u \in DOMAIN uploads :
       \A k \in 1..Len(uploads[u].createdEvents) :
         LET e == uploads[u].createdEvents[k]
         IN /\ \E m \in 1..Len(uploads[u].createdMembers) :
                 /\ uploads[u].createdMembers[m].id = e.memberId
                 /\ InStore(MapValues(storage.familyMembers), uploads[u].createdMembers[m])
            /\ \E l \in 1..Len(uploads[u].createdLocations) :
                 /\ uploads[u].createdLocations[l].id = e.locationId
                 /\ InStore(MapValues(storage.locations), uploads[u].createdLocations[l])
            /\ InStore(MapValues(storage.events), e)

\* two uploads that have each created an event, the second upload's first
C5_Witness ==
  /\ DOMAIN uploads = Uploads
  /\ \A u \in DOMAIN uploads : uploads[u].createdEvents # <<>>
  /\ MapValues(storage.events)[1] = uploads["u2"].createdEvents[1]

\* the event the k-th (person, role) pair gives when its place resolves
ExpectedEvent(up, pair) ==
  [memberId |-> up.createdMembers[pair.memberIdx].id,
   eventType |-> pair.role,
   eventDate |-> pair.date,
   description |-> (IF pair.role = <<"b", "i", "r", "t", "h">>
                    THEN <<"B", "o", "r", "n", " ", "i", "n", " ">>
                    ELSE <<"D", "i", "e", "d", " ", "i", "n", " ">>) \o pair.place,
   notes |-> <<>>]

EventFields(e) ==
  [memberId |-> e.memberId, eventType |-> e.eventType, eventDate |-> e.eventDate,
   description |-> e.description, notes |-> e.notes]

\* C6: an answered upload has created, for each stored person and each role
\* whose place is non-empty and resolved, exactly one event with that role as
\* eventType, the role's date as eventDate, the description "Born in {place}"
\* or "Died in {place}" and empty notes, and no other event.
C6_OneEventPerResolvedPlace ==
  \A u \in DOMAIN uploads :
    Succeeded(u) =>
      LET up == uploads[u]
          calls == geoCalls[u]
          pairs == RolePairs(up)
      IN /\ Len(calls) = Len(pairs)
         /\ Len(up.createdEvents) = Cardinality(Matches(calls))
         /\ \A n \in 1..Len(up.createdEvents) :
              EventFields(up.createdEvents[n]) =
                ExpectedEvent(up, pairs[NthMatch(calls, n)])

\* an answered upload with a birth event, a death event with its own date,
\* and a stored person without a death place
C6_Witness ==
  \E u \in DOMAIN uploads :
    /\ Succeeded(u)
    /\ \E a, b \in 1..Len(uploads[u].createdEvents) :
         /\ uploads[u].createdEvents[a].eventType = S_birth
         /\ uploads[u].createdEvents[b].eventType = S_death
         /\ uploads[u].createdEvents[a].eventDate # uploads[u].createdEvents[b].eventDate
    /\ \E n \in 1..Len(NamedRows(uploads[u])) :
         ~Truthy(NamedRows(uploads[u])[n].placeOfDeath)

CountOf(s, Test(_)) == Cardinality({k \in 1..Len(s) : Test(s[k])})

\* C7: within an answered upload the geocoder was called exactly once per
\* (stored person, role) pair with a non-empty place, a recurring place
\* string being asked again each time; every successful call created its own
\* location with memberCount 1, so locations = events = successful calls.
C7_OneCallPerPairNoCache ==
  \A u \in DOMAIN uploads :
    Succeeded(u) =>
      LET up == uploads[u]
          calls == geoCalls[u]
          pairs == RolePairs(up)
          places == {pairs[k].place : k \in 1..Len(pairs)}
                      \cup {calls[k].address : k \in 1..Len(calls)}
      IN /\ \A p \in places :
              CountOf(calls, LAMBDA c : c.address = p)
                = CountOf(pairs, LAMBDA q : q.place = p)
         /\ \A k \in 1..Len(calls) : calls[k].outcome # "pending"
         /\ Len(up.createdLocations) = Cardinality(Matches(calls))
         /\ Len(up.createdEvents) = Cardinality(Matches(calls))
         /\ up.response[1].locations = Cardinality(Matches(calls))
         /\ up.response[1].events = Cardinality(Matches(calls))
         /\ \A n \in 1..Len(up.createdLocations) :
              /\ up.createdLocations[n].memberCount = 1
              /\ up.createdLocations[n].name = calls[NthMatch(calls, n)].address
              /\ \A m \in 1..Len(up.createdLocations) :
                   up.createdLocations[m].id = up.createdLocations[n].id => m = n

\* an answered upload that asked for the same place twice and created a
\* location each time
C7_Witness ==
  \E u \in DOMAIN uploads :
    /\ Succeeded(u)
    /\ \E a, b \in Matches(geoCalls[u]) :
         a # b /\ geoCalls[u][a].address = geoCalls[u][b].address
    /\ Len(uploads[u].createdLocations) >= 2

\* C8: no two locations created by the same upload have the same name.
C8_OneLocationPerPlaceString ==
  \A u \in DOMAIN uploads :
    \A a, b \in 1..Len(uploads[u].createdLocations) :
      uploads[u].createdLocations[a].name = uploads[u].createdLocations[b].name => a = b

\* the created events of an upload, in the order the store holds them
StoredEventsOf(u) ==
  SelectSeq(MapValues(storage.events), LAMBDA e : InStore(uploads[u].createdEvents, e))

\* C9: the calls of an upload are issued one at a time and in source order:
\* only the last call can be outstanding, the k-th call asks for the place
\* of the k-th (person, role) pair, a call is outstanding only when every
\* earlier successful call has its location and event, and the events are
\* created, and stored, in the order of their pairs.
C9_CallsSequentialInSourceOrder ==
  \A u \in DOMAIN uploads :
    LET up == uploads[u]
        calls == geoCalls[u]
        pairs == RolePairs(up)
    IN /\ Len(calls) <= Len(pairs)
       /\ \A k \in 1..Len(calls) :
            /\ calls[k].address = pairs[k].place
            /\ calls[k].outcome = "pending" => (k = Len(calls) /\ up.pc = "geocoding")
       /\ up.pc = "geocoding" =>
            /\ calls # <<>> /\ calls[Len(calls)].outcome = "pending"
            /\ Len(up.createdLocations) = Cardinality(Matches(calls))
            /\ Len(up.createdEvents) = Cardinality(Matches(calls))
       /\ \A n \in 1..Len(up.createdEvents) :
            LET pair == pairs[NthMatch(calls, n)]
            IN /\ up.createdEvents[n].eventType = pair.role
               /\ up.createdEvents[n].memberId = up.createdMembers[pair.memberIdx].id
               /\ up.createdEvents[n].locationId = up.createdLocations[n].id
       /\ StoredEventsOf(u) = up.createdEvents

\* an upload awaiting its third call, for a later person, after the birth
\* and the death call of an earlier person both succeeded
C9_Witness ==
  \E u \in DOMAIN uploads :
    /\ uploads[u].pc = "geocoding"
    /\ Len(geoCalls[u]) = 3
    /\ Len(uploads[u].createdEvents) = 2
    /\ uploads[u].createdEvents[1].eventType = S_birth
    /\ uploads[u].createdEvents[2].eventType = S_death
    /\ Len(uploads[u].createdMembers) = 2

RECURSIVE SumOver(_, _)
SumOver(S, f) ==
  IF S = {} THEN 0 ELSE LET x == CHOOSE y \in S : TRUE IN f[x] + SumOver(S \ {x}, f)

\* the named collection of the store against the matching lists of the uploads:
\* every created entity is stored as created, and nothing else is stored
Accounted(stored, created) ==
  /\ \A u \in DOMAIN uploads : \A k \in 1..Len(created[u]) : InStore(stored, created[u][k])
  /\ Len(stored) = SumOver(DOMAIN uploads, [u \in DOMAIN uploads |-> Len(created[u])])

\* C10: with two uploads interleaving, the store holds the entities of both,
\* none lost or overwritten, and the counts an upload reports are those of
\* the entities it created itself, decided by its own file and its own
\* geocoding results alone.
C10_ConcurrentUploadsIndependent ==
  /\ Accounted(MapValues(storage.familyMembers), [u \in DOMAIN uploads |-> uploads[u].createdMembers])
  /\ Accounted(MapValues(storage.locations), [u \in DOMAIN uploads |-> uploads[u].createdLocations])
  /\ Accounted(MapValues(storage.events), [u \in DOMAIN uploads |-> uploads[u].createdEvents])
  /\ \A u \in DOMAIN uploads :
       Succeeded(u) =>
         /\ uploads[u].response[1].members = Len(NamedRows(uploads[u]))
         /\ uploads[u].response[1].locations = Cardinality(Matches(geoCalls[u]))
         /\ uploads[u].response[1].events = Cardinality(Matches(geoCalls[u]))
         /\ uploads[u].response[1].members =
              CountOf(MapValues(storage.familyMembers),
                      LAMBDA m : InStore(uploads[u].createdMembers, m))

\* both uploads answered, one after a failed geocode and one after a
\* successful one, their members stored in the order u2, u1
C10_Witness ==
  /\ DOMAIN uploads = Uploads
  /\ \A u \in DOMAIN uploads : Succeeded(u)
  /\ Failures(geoCalls["u1"]) # {}
  /\ Matches(geoCalls["u2"]) # {}
  /\ uploads["u1"].response[1].events = 0
  /\ uploads["u2"].response[1].events = 1
  /\ Len(MapValues(storage.familyMembers)) = 2
  /\ MapValues(storage.familyMembers)[1] = uploads["u2"].createdMembers[1]

\* ========================================================================
\* Claims about parseCsv and the CSV upload (checked under SpecCsv)
\* ========================================================================
\* the data lines of a CSV text: its non-blank lines after the header line
DataLines(text) ==
  LET ls == CsvLines(text) IN IF Len(ls) < 2 THEN <<>> ELSE Tail(ls)

\* the value of a data line in the column the header line calls key
ColumnOf(headers, line, key) == RowGet(headers, CsvValues(line), key)

\* the column names of a CSV text
HeadersOf(text) == IF CsvLines(text) = <<>> THEN <<>> ELSE CsvHeaders(CsvLines(text)[1])

\* the data lines with a non-empty name, in row order
LinesWithName(text) ==
  LET hs == HeadersOf(text)
      Keep(line) == ColumnOf(hs, line, S_name) \notin {<<>>, Undefined}
  IN SelectSeq(DataLines(text), Keep)

NamesOf(records) == [k \in 1..Len(records) |-> records[k].name]

IsPrefix(s, t) == Len(s) <= Len(t) /\ s = SubSeq(t, 1, Len(s))

\* the non-empty places of the stored members, birth before death
StoredPlaces(members) ==
  LET PlacesOfMember(m) ==
        (IF m.birthPlace \in {Null, <<>>} THEN <<>> ELSE <<m.birthPlace>>)
          \o (IF m.deathPlace \in {Null, <<>>} THEN <<>> ELSE <<m.deathPlace>>)
  IN Flatten([k \in 1..Len(members) |-> PlacesOfMember(members[k])])

\* C11: a CSV data row with an empty or absent name produces no record and
\* no error: parseCsv returns exactly the rows with a non-empty name, in row
\* order; the upload handler stores a member for exactly those rows and
\* sends the geocoder only places of stored members.
C11_EmptyNameRowSkipped ==
  LET expected == LinesWithName(csvText)
      hs == HeadersOf(csvText)
      names == [k \in 1..Len(expected) |-> ColumnOf(hs, expected[k], S_name)]
  IN /\ csvPc = "done" => NamesOf(csvIndividuals) = names
     /\ \A u \in DOMAIN uploads :
          LET up == uploads[u]
              addresses == [k \in 1..Len(geoCalls[u]) |-> geoCalls[u][k].address]
          IN /\ IsPrefix(NamesOf(up.createdMembers), names)
             /\ IsPrefix(addresses, StoredPlaces(up.createdMembers))
             /\ Answered(u) =>
                  /\ NamesOf(up.createdMembers) = names
                  /\ addresses = StoredPlaces(up.createdMembers)
                  /\ up.response[1].status = IF DataLines(csvText) = <<>> THEN 400 ELSE 200

\* parseCsv has returned and the upload is answered for a text in which a row
\* with a place but no name stands before a row with a name and a place
C11_Witness ==
  /\ csvPc = "done"
  /\ \A u \in DOMAIN uploads : Succeeded(u)
  /\ \E a, b \in 1..Len(DataLines(csvText)) :
       LET hs == HeadersOf(csvText)
       IN /\ a < b
          /\ ColumnOf(hs, DataLines(csvText)[a], S_name) = <<>>
          /\ ColumnOf(hs, DataLines(csvText)[a], S_birth_place) # <<>>
          /\ ColumnOf(hs, DataLines(csvText)[b], S_name) # <<>>
          /\ ColumnOf(hs, DataLines(csvText)[b], S_birth_place) # <<>>
  /\ Len(csvIndividuals) = 1
  /\ \A u \in DOMAIN uploads : Len(geoCalls[u]) = 1

IsEmpty(v) == v \in {<<>>, Undefined, Null}

\* the first non-empty value among two columns of a data line
FirstNonEmpty(headers, line, a, b) ==
  IF ~IsEmpty(ColumnOf(headers, line, a)) THEN <<ColumnOf(headers, line, a)>>
  ELSE IF ~IsEmpty(ColumnOf(headers, line, b)) THEN <<ColumnOf(headers, line, b)>>
  ELSE <<>>

\* a field of a record is that value, or empty when there is none
FieldIs(field, value) == IF value = <<>> THEN IsEmpty(field) ELSE field = value[1]

\* a record has the four fields its data line gives it
AliasesMerged(headers, line, record) ==
  /\ FieldIs(record.birthDate, FirstNonEmpty(headers, line, S_birth_date, S_birthdate))
  /\ FieldIs(record.deathDate, FirstNonEmpty(headers, line, S_death_date, S_deathdate))
  /\ FieldIs(record.birthPlace, FirstNonEmpty(headers, line, S_birth_place, S_birthplace))
  /\ FieldIs(record.deathPlace, FirstNonEmpty(headers, line, S_death_place, S_deathplace))

JaneText == Join(<<H_Plain, V_Jane>>, <<"\n">>)

\* C12: for every CSV data row with a non-empty name, birthDate, deathDate,
\* birthPlace and deathPlace of the produced record are the first non-empty
\* value among the underscore alias and the plain alias of the column, and
\* empty when both are empty; header name,birth_date,birth_place with row
\* Jane Doe,1900,Boston gives one record with birthDate 1900 and birthPlace
\* Boston.  Both for parseCsv and for the member the upload handler stores.
C12_AliasesFirstNonEmptyWins ==
  LET expected == LinesWithName(csvText)
      hs == HeadersOf(csvText)
  IN /\ csvPc = "done" =>
          /\ Len(csvIndividuals) = Len(expected)
          /\ \A k \in 1..Len(expected) :
               AliasesMerged(hs, expected[k], csvIndividuals[k])
          /\ csvText = JaneText =>
               /\ Len(csvIndividuals) = 1
               /\ csvIndividuals[1].birthDate = <<"1", "9", "0", "0">>
               /\ csvIndividuals[1].birthPlace = <<"B", "o", "s", "t", "o", "n">>
     /\ \A u \in DOMAIN uploads :
          /\ Len(uploads[u].createdMembers) <= Len(expected)
          /\ \A k \in 1..Len(uploads[u].createdMembers) :
               /\ AliasesMerged(hs, expected[k], uploads[u].createdMembers[k])
               /\ uploads[u].createdMembers[k] \in
                    {MapValues(storage.familyMembers)[n] : n \in 1..Len(MapValues(storage.familyMembers))}

\* both readers are done with a text whose header has both aliases of a
\* column, one row filling both with different values and one row filling
\* only the plain alias
C12_Witness ==
  /\ csvPc = "done"
  /\ \A u \in DOMAIN uploads : Succeeded(u) /\ Len(uploads[u].createdMembers) = 2
  /\ Len(csvIndividuals) = 2
  /\ \E a, b \in 1..Len(DataLines(csvText)) :
       LET la == DataLines(csvText)[a]
           lb == DataLines(csvText)[b]
           hs == HeadersOf(csvText)
       IN /\ ~IsEmpty(ColumnOf(hs, la, S_birth_date))
          /\ ~IsEmpty(ColumnOf(hs, la, S_birthdate))
          /\ ColumnOf(hs, la, S_birth_date) # ColumnOf(hs, la, S_birthdate)
          /\ ColumnOf(hs, lb, S_birth_date) = <<>>
          /\ ~IsEmpty(ColumnOf(hs, lb, S_birthdate))

\* the types of the events a record's own fields call for
EventTypesDue(record) ==
  (IF IsEmpty(record.birthDate) /\ IsEmpty(record.birthPlace) THEN <<>> ELSE <<S_birth>>)
    \o (IF IsEmpty(record.deathDate) /\ IsEmpty(record.deathPlace) THEN <<>> ELSE <<S_death>>)

\* C13: the event list of every record parseCsv produces holds exactly one
\* birth event iff birthDate or birthPlace is non-empty, exactly one death
\* event iff deathDate or deathPlace is non-empty, the birth event before the
\* death event, and no other event.
C13_CsvEventsPerRecord ==
  csvPc = "done" =>
    \A k \in 1..Len(csvIndividuals) :
      [e \in 1..Len(csvIndividuals[k].events) |-> csvIndividuals[k].events[e].type]
        = EventTypesDue(csvIndividuals[k])

\* parseCsv returned a record with a birth place and a death date only, which
\* has both events, and a record with no date and no place, which has none
C13_Witness ==
  /\ csvPc = "done"
  /\ \E a, b \in 1..Len(csvIndividuals) :
       /\ IsEmpty(csvIndividuals[a].birthDate) /\ ~IsEmpty(csvIndividuals[a].birthPlace)
       /\ ~IsEmpty(csvIndividuals[a].deathDate) /\ IsEmpty(csvIndividuals[a].deathPlace)
       /\ Len(csvIndividuals[a].events) = 2
       /\ EventTypesDue(csvIndividuals[b]) = <<>>
       /\ csvIndividuals[b].events = <<>>

\* ========================================================================
\* Further claims about parseGedcom (checked under SpecParse)
\* ========================================================================
\* the loop is about to read a line
AtLine == pc = "loop" /\ lineIdx <= Len(lines)

S_John_Smith == <<"J", "o", "h", "n", " ", "S", "m", "i", "t", "h">>

\* C14: a level-1 NAME line inside an individual sets the display name to the
\* line's value with every "/" removed and every other character, the spaces
\* between words included, kept; 1 NAME John /Smith/ gives John Smith.
C14_NameSlashesStripped ==
  /\ (/\ AtLine
      /\ LineLevel(lines[lineIdx]) = <<1>>
      /\ LineTag(lines[lineIdx]) = S_NAME
      /\ currentContext = "individual"
      /\ currentIndividual # <<>>) =>
       LET name == ParseLineStep(ParserState, lines[lineIdx]).currentIndividual[1].name
           value == LineValue(lines[lineIdx])
           kept == {k \in 1..Len(value) : value[k] # "/"}
       IN /\ Len(name) = Cardinality(kept)
          /\ \A k \in kept : name[Cardinality({j \in kept : j <= k})] = value[k]
  /\ (pc = "done" /\ lines = <<Trim(L_INDI1), L_NAME>>) =>
       /\ Len(individuals) = 1
       /\ individuals[1].name = S_John_Smith

\* the parse of a text with the line 1 NAME John /Smith/ in an individual
\* returned that individual with the name John Smith
C14_Witness ==
  /\ pc = "done"
  /\ \E k \in 2..Len(lines) : lines[k] = L_NAME /\ IsIndiLine(lines[k - 1])
  /\ \E k \in 1..Len(individuals) : individuals[k].name = S_John_Smith

\* ========================================================================
\* Further claims about the uploads (checked under SpecUpload)
\* ========================================================================
\* the lines of a GEDCOM file and the lines that open a record
FileLines(text) == TrimAll(Split(text, <<"\n">>))

RecordStarts(ls) == {k \in 1..Len(ls) : LineLevel(ls[k]) = <<0>>}

IndiStarts(ls) == {k \in RecordStarts(ls) : Includes(ls[k], S_INDI)}

\* the value of the first level-2 line tagged sub under the level-1 line
\* tagged ev in the record that starts at line k; none: the empty sequence
EventValue(ls, k, ev, sub) ==
  LET last == IF \E n \in RecordStarts(ls) : n > k
              THEN (CHOOSE n \in RecordStarts(ls) :
                      n > k /\ \A m \in RecordStarts(ls) : m > k => n <= m) - 1
              ELSE Len(ls)
      Encloser(j) == CHOOSE i \in k..(j - 1) :
                       /\ i = k \/ LineLevel(ls[i]) = <<1>>
                       /\ \A h \in (i + 1)..(j - 1) : LineLevel(ls[h]) # <<1>>
      hits == {j \in (k + 1)..last :
                 /\ LineLevel(ls[j]) = <<2>>
                 /\ LineTag(ls[j]) = sub
                 /\ Encloser(j) # k
                 /\ LineTag(ls[Encloser(j)]) = ev}
  IN IF hits = {} THEN <<>>
     ELSE <<LineValue(ls[CHOOSE j \in hits : \A h \in hits : j <= h])>>

\* the k-th element of a set of numbers in increasing order
NthOf(S, n) == CHOOSE k \in S : Cardinality({j \in S : j <= k}) = n

\* C15: the family member stored by the GEDCOM upload has birthDate and
\* birthPlace equal to the DATE and PLAC of the individual's BIRT event and
\* deathDate and deathPlace equal to the DATE and PLAC of its DEAT event; a
\* DATE or PLAC of another event is stored in none of the four fields.
C15_BirthDeathFieldsFromOwnEvent ==
  \A u \in DOMAIN uploads :
    LET up == uploads[u]
        ls == FileLines(up.file[1])
        named == {r \in 1..Len(up.members) : Truthy(up.members[r].name)}
    IN (up.kind = "gedcom" /\ up.file # <<>> /\ up.pc # "start") =>
         /\ Len(up.members) = Cardinality(IndiStarts(ls))
         /\ \A n \in 1..Len(up.createdMembers) :
              LET k == NthOf(IndiStarts(ls), NthOf(named, n))
                  m == up.createdMembers[n]
              IN /\ FieldIs(m.birthDate, EventValue(ls, k, S_BIRT, S_DATE))
                 /\ FieldIs(m.birthPlace, EventValue(ls, k, S_BIRT, S_PLAC))
                 /\ FieldIs(m.deathDate, EventValue(ls, k, S_DEAT, S_DATE))
                 /\ FieldIs(m.deathPlace, EventValue(ls, k, S_DEAT, S_PLAC))

\* ========================================================================
\* Events, pending events and families of parseGedcom (checked under SpecParse)
\* ========================================================================
EventTags == {S_BIRT, S_DEAT, S_MARR, S_RESI}

\* the result of the loop body on the line the loop is about to read
AfterLine == ParseLineStep(ParserState, lines[lineIdx])

\* the event the individual (resp. the family) in progress has just received
AttachedToIndividual(e) ==
  /\ currentContext = "individual"
  /\ currentIndividual # <<>>
  /\ AfterLine.currentIndividual # <<>>
  /\ AfterLine.currentIndividual[1].events = Append(currentIndividual[1].events, e)

AttachedToFamily(e) ==
  /\ e.type = S_marriage
  /\ currentContext = "family"
  /\ currentFamily # <<>>
  /\ AfterLine.currentFamily # <<>>
  /\ AfterLine.currentFamily[1].marriageDate = e.date
  /\ AfterLine.currentFamily[1].marriagePlace = e.place

\* an emitted individual or family holds the event
HasOwner(e) ==
  \/ \E k \in 1..Len(individuals) :
       \E n \in 1..Len(individuals[k].events) : individuals[k].events[n] = e
  \/ /\ e.type = S_marriage
     /\ \E k \in 1..Len(families) :
          families[k].marriageDate = e.date /\ families[k].marriagePlace = e.place

RECURSIVE EventsEmitted(_)
EventsEmitted(inds) ==
  IF inds = <<>> THEN 0 ELSE Len(Head(inds).events) + EventsEmitted(Tail(inds))

\* C16: every event parseGedcom puts in its flat event list is attached to
\* exactly one owner: at the step that closes it, it goes into the event list
\* of the individual in progress or, a marriage, into the family in progress;
\* in the result it is held by an emitted individual or family, and the
\* event lists of the emitted individuals hold no event twice.
C16_ClosedEventHasOneOwner ==
  /\ (AtLine /\ Len(AfterLine.events) > Len(events)) =>
       LET e == AfterLine.events[Len(AfterLine.events)]
       IN AttachedToIndividual(e) \/ AttachedToFamily(e)
  /\ pc = "done" =>
       /\ \A n \in 1..Len(events) : HasOwner(events[n])
       /\ EventsEmitted(individuals) <= Len(events)

\* C17: a level-2 DATE or PLAC line is attached only to the event opened by
\* its enclosing level-1 event tag: a pending event does not survive a
\* following level-0 line or a following level-1 line that is not an event
\* tag, and a DATE or PLAC line right under such a line changes nothing.
C17_PendingEventEndsWithItsBlock ==
  /\ (/\ AtLine
      /\ currentEvent # <<>>
      /\ \/ LineLevel(lines[lineIdx]) = <<0>>
         \/ LineLevel(lines[lineIdx]) = <<1>> /\ LineTag(lines[lineIdx]) \notin EventTags) =>
       AfterLine.currentEvent = <<>>
  /\ (/\ AtLine
      /\ lineIdx > 1
      /\ LineLevel(lines[lineIdx]) = <<2>>
      /\ LineTag(lines[lineIdx]) \in {S_DATE, S_PLAC}
      /\ \/ LineLevel(lines[lineIdx - 1]) = <<0>>
         \/ LineLevel(lines[lineIdx - 1]) = <<1>> /\ LineTag(lines[lineIdx - 1]) \notin EventTags) =>
       AfterLine = ParserState

\* a level-0 line that opens a family block
IsFamLine(line) ==
  /\ LineLevel(line) = <<0>>
  /\ LineTag(line) # Undefined
  /\ ~Includes(LineTag(line), S_INDI)
  /\ Includes(LineTag(line), S_FAM)

\* the level-1 lines tagged tag of the block opened at line k, in file order
BlockLines(ls, k, tag) ==
  LET In(j) == /\ j > k
               /\ NoLevel0(ls, k + 1, j)
               /\ LineLevel(ls[j]) = <<1>>
               /\ LineTag(ls[j]) = tag
      idx == {j \in 1..Len(ls) : In(j)}
  IN [n \in 1..Cardinality(idx) |-> LineValue(ls[NthOf(idx, n)])]

LastOr(values, none) == IF values = <<>> THEN none ELSE values[Len(values)]

\* C18: each level-0 FAM block yields exactly one emitted family, whatever
\* follows it; its husband and wife are the values of its HUSB and WIFE lines
\* and its children are the values of its CHIL lines in file order.
C18_OneFamilyPerFamBlock ==
  pc = "done" =>
    LET opened == {k \in 1..Len(lines) : IsFamLine(lines[k])}
    IN /\ Len(families) = Cardinality(opened)
       /\ \A n \in 1..Len(families) :
            LET k == NthOf(opened, n)
            IN /\ families[n].id = LineTag(lines[k])
               /\ families[n].husband = LastOr(BlockLines(lines, k, S_HUSB), Undefined)
               /\ families[n].wife = LastOr(BlockLines(lines, k, S_WIFE), Undefined)
               /\ families[n].children = BlockLines(lines, k, S_CHIL)

\* ========================================================================
\* Claims about generateStoryFromEvents (checked under SpecStory)
\* ========================================================================
\* the places at which sub occurs in s
Occurrences(s, sub) ==
  {i \in 1..(Len(s) - Len(sub) + 1) : SubSeq(s, i, i + Len(sub) - 1) = sub}

\* the name of the given location of an event
PlaceOf(args, event) ==
  LET hits == {k \in 1..Len(args.locations) : args.locations[k].id = event.locationId}
  IN args.locations[CHOOSE k \in hits : TRUE].name

\* a given member has exactly a birth event and a death event, each with a
\* date and a given location, the birth date earlier than the death date
BirthThenDeath(args, m, b, d) ==
  /\ {k \in 1..Len(args.events) : args.events[k].memberId = args.members[m].id} = {b, d}
  /\ b # d
  /\ args.events[b].eventType = S_birth
  /\ args.events[d].eventType = S_death
  /\ \A k \in {b, d} :
       /\ args.events[k].eventDate # Null
       /\ \E n \in 1..Len(args.locations) : args.locations[n].id = args.events[k].locationId
  /\ ParseInt(args.events[b].eventDate)[1] < ParseInt(args.events[d].eventDate)[1]

\* C19: for one person with a birth event (place P1, date D1) and a death
\* event (place P2, date D2), D1 earlier than D2, the text contains
\* "birth in P1 in D1" and after it "life concluded in P2 in D2", with a comma
\* right after the first; for Boston 1900 and Chicago 1950 these are
\* "birth in Boston in 1900" and "life concluded in Chicago in 1950".
C19_BirthThenDeathSentence ==
  storyPc = "done" =>
    \A m \in 1..Len(storyArgs.members) :
      \A b, d \in 1..Len(storyArgs.events) :
        BirthThenDeath(storyArgs, m, b, d) =>
          LET born == <<"b", "i", "r", "t", "h", " ", "i", "n", " ">> \o PlaceOf(storyArgs, storyArgs.events[b])
                        \o S_in \o storyArgs.events[b].eventDate
              died == <<"l", "i", "f", "e", " ", "c", "o", "n", "c", "l", "u", "d", "e", "d", " ", "i", "n", " ">> \o PlaceOf(storyArgs, storyArgs.events[d])
                        \o S_in \o storyArgs.events[d].eventDate
          IN /\ \E i \in Occurrences(story, born \o <<",">>) :
                  \E j \in Occurrences(story, died) : i + Len(born) < j
             /\ (/\ PlaceOf(storyArgs, storyArgs.events[b]) = <<"B", "o", "s", "t", "o", "n">>
                 /\ storyArgs.events[b].eventDate = <<"1", "9", "0", "0">>
                 /\ PlaceOf(storyArgs, storyArgs.events[d]) = <<"C", "h", "i", "c", "a", "g", "o">>
                 /\ storyArgs.events[d].eventDate = <<"1", "9", "5", "0">>) =>
                  \E i \in Occurrences(story, <<"b", "i", "r", "t", "h", " ", "i", "n", " ", "B", "o", "s", "t", "o", "n", " ", "i", "n", " ", "1", "9", "0", "0">>) :
                    \E j \in Occurrences(story, <<"l", "i", "f", "e", " ", "c", "o", "n", "c", "l", "u", "d", "e", "d", " ", "i", "n", " ", "C", "h", "i", "c", "a", "g", "o", " ", "i", "n", " ", "1", "9", "5", "0">>) : i < j

\* the function returned the text for Ann's death in Chicago in 1950 given
\* before her birth in Boston in 1900
C19_Witness ==
  /\ storyPc = "done"
  /\ \E b, d \in 1..Len(storyArgs.events) : d < b /\ BirthThenDeath(storyArgs, 1, b, d)
  /\ Occurrences(story, <<"b", "i", "r", "t", "h", " ", "i", "n", " ", "B", "o", "s", "t", "o", "n", " ", "i", "n", " ", "1", "9", "0", "0">>) # {}
  /\ Occurrences(story, <<"l", "i", "f", "e", " ", "c", "o", "n", "c", "l", "u", "d", "e", "d", " ", "i", "n", " ", "C", "h", "i", "c", "a", "g", "o", " ", "i", "n", " ", "1", "9", "5", "0">>) # {}

KnownTypes == {S_birth, S_migration, S_death}

KnownType(event) == event.eventType \in KnownTypes

\* C20: an event whose type is none of birth, migration, death contributes
\* nothing: the text equals the text generated from the same list without
\* the events of unknown type.
C20_UnknownTypeContributesNothing ==
  storyPc = "done" =>
    story = GenerateStoryFromEvents(SelectSeq(storyArgs.events, KnownType),
                                    storyArgs.members, storyArgs.locations)

\* ========================================================================
\* Claims about the collection routes (checked under SpecApi)
\* ========================================================================
\* the path of each collection endpoint
Endpoint ==
  [familyMembers |-> "/api/family-members", locations |-> "/api/locations",
   events |-> "/api/events", stories |-> "/api/stories",
   geopackageLayers |-> "/api/geopackage-layers",
   atlasProjects |-> "/api/atlas-projects"]

\* the bodies each insert schema accepts, read off the tables of schema.ts:
\* notes is a column of family_members and events, is_visible of
\* geopackage_layers
ValidBodies ==
  [c \in Collections |->
     IF c \in {"locations", "stories", "atlasProjects"}
     THEN {B_All(T_m1), B_All(T_m2), B_BadOptional}
     ELSE {B_All(T_m1), B_All(T_m2)}]

PostTo(c) ==
  /\ lastCall # <<>>
  /\ lastCall[1].request.method = "POST"
  /\ lastCall[1].request.path = Endpoint[c]

ValidPost(c) ==
  /\ PostTo(c)
  /\ lastCall[1].request.body # <<>>
  /\ lastCall[1].request.body[1] \in ValidBodies[c]

\* C21: a POST to a collection endpoint with a body its schema rejects is
\* answered 400 with a message and nothing else, and no collection of the
\* store changes; with a body its schema accepts it is answered 201 with the
\* new entity, which is the one entity added to that collection, the other
\* collections being unchanged.
C21_PostValidatesThenCreatesOne ==
  \A c \in Collections :
    PostTo(c) =>
      LET call == lastCall[1]
          answer == call.response[1]
      IN /\ Len(call.response) = 1
         /\ IF ValidPost(c)
            THEN /\ answer.status = 201
                 /\ storage[c] = Append(call.before[c],
                                        [key |-> answer.json.id, value |-> answer.json])
                 /\ ~MapHas(call.before[c], answer.json.id)
                 /\ \A d \in Collections \ {c} : storage[d] = call.before[d]
            ELSE /\ answer.status = 400
                 /\ DOMAIN answer.json = {"message"}
                 /\ storage = call.before

\* a rejected POST to a store that holds an entity, and an accepted one
C21_Witness ==
  /\ PostTo("events")
  /\ lastCall[1].request.body = <<B_BadOptional>>
  /\ lastCall[1].response[1].status = 400
  /\ Len(storage.events) = 1
  /\ Len(storage.atlasProjects) = 1

\* the stored events whose property f is the string id
EventsWith(f, id) ==
  SelectSeq(MapValues(storage.events),
            LAMBDA e : f \in DOMAIN e /\ e[f].t = "string" /\ e[f].v = id)

FilteredRead(path) ==
  /\ lastCall # <<>>
  /\ lastCall[1].request.method = "GET"
  /\ lastCall[1].request.path = path
  /\ lastCall[1].request.param # <<>>

\* C22: GET /api/events/member/:memberId and GET /api/events/location/:locationId
\* are both answered, each with exactly the stored events whose memberId
\* (locationId) is the path parameter, and the store is as it was.
C22_FilteredReadsServed ==
  \A read \in {<<"/api/events/member", "memberId">>,
                <<"/api/events/location", "locationId">>} :
    FilteredRead(read[1]) =>
      /\ Len(lastCall[1].response) = 1
      /\ lastCall[1].response[1].status = 200
      /\ lastCall[1].response[1].json = EventsWith(read[2], lastCall[1].request.param[1])
      /\ storage = lastCall[1].before

\* ========================================================================
\* Claims about the two GEDCOM parsers (checked under SpecParse)
\* ========================================================================
\* null and undefined both stand for a field that was not set
Unset(v) == v = Null \/ v = Undefined

SameField(a, b) == IF Unset(a) THEN Unset(b) ELSE a = b

PersonFields == {"name", "birthDate", "birthPlace", "deathDate", "deathPlace"}

\* C23: for the same text, parseGedcomData and parseGedcom return the same
\* sequence of individuals, equal in name, birthDate, birthPlace, deathDate
\* and deathPlace.
C23_ParsersAgree ==
  (pc = "done" /\ gedcomData # <<>>) =>
     /\ Len(gedcomData[1]) = Len(individuals)
     /\ \A k \in 1..Len(individuals) :
          \A f \in PersonFields : SameField(gedcomData[1][k][f], individuals[k][f])

\* ========================================================================
\* Claims about MemStorage (checked under SpecStore)
\* ========================================================================
\* every entry of the store with its collection
AllEntries ==
  UNION { {[collection |-> c, at |-> k, key |-> storage[c][k].key,
            value |-> storage[c][k].value] : k \in 1..Len(storage[c])} :
          c \in Collections }

LastOp(op) == lastCall # <<>> /\ lastCall[1].op = op

\* the ledger's entry of the id of the latest call, if it has one
EntryOfCall ==
  {ledger[k] : k \in {j \in 1..Len(ledger) :
                        lastCall[1].id # <<>> /\ ledger[j].id = lastCall[1].id}}

DeletedIds == {ledger[k].id : k \in {j \in 1..Len(ledger) : ledger[j].deleted}}

\* C24: after any calls of create, update and delete, every stored entity's
\* id is the key it is stored under and no two stored entities share an id; a
\* get of an entity that was created and neither updated nor deleted returns
\* what create returned; a get of a deleted id returns nothing and no list
\* holds an entity with a deleted id.
C24_StoreKeysAndReads ==
  /\ \A e \in AllEntries : e.value.id = e.key
  /\ \A e1, e2 \in AllEntries :
       e1.key = e2.key => (e1.collection = e2.collection /\ e1.at = e2.at)
  /\ LastOp("get") =>
       \A entry \in EntryOfCall :
         /\ (entry.collection = lastCall[1].collection /\ entry.updates = <<>>
             /\ ~entry.deleted) => lastCall[1].result = <<entry.created>>
         /\ entry.deleted => lastCall[1].result = <<>>
  /\ LastOp("list") =>
       \A k \in 1..Len(lastCall[1].result) : lastCall[1].result[k].id \notin DeletedIds

\* a get of a deleted id, made while an updated entity is stored
C24_Witness ==
  /\ LastOp("get")
  /\ lastCall[1].id[1] \in DeletedIds
  /\ \E k \in 1..Len(ledger) : ~ledger[k].deleted /\ Len(ledger[k].updates) = 1

\* the id of the latest call was stored in its collection when it was made
WasStored ==
  \E k \in 1..Len(lastCall[1].before[lastCall[1].collection]) :
    lastCall[1].before[lastCall[1].collection][k].key = lastCall[1].id[1]

\* C25: update of an id that is not stored returns undefined and delete of
\* an id that is not stored returns false, both leaving every collection as
\* it was; delete of a stored id returns true, and a delete of an id that
\* was deleted before returns false.
C25_MissingIdLeavesStoreUnchanged ==
  /\ LastOp("update") =>
       /\ ~WasStored => (lastCall[1].result = <<>> /\ storage = lastCall[1].before)
       /\ WasStored => lastCall[1].result # <<>>
  /\ LastOp("delete") =>
       /\ ~WasStored => (lastCall[1].result = <<FALSE>> /\ storage = lastCall[1].before)
       /\ WasStored => lastCall[1].result = <<TRUE>>
       /\ (\A entry \in EntryOfCall : lastCall[1].result = <<FALSE>>
             => (entry.deleted \/ entry.collection # lastCall[1].collection))
       /\ (\A entry \in EntryOfCall : entry.deleted /\ ~WasStored
             => lastCall[1].result = <<FALSE>>)

\* the second delete of an id, in a store that holds another entity
C25_Witness ==
  /\ LastOp("delete")
  /\ lastCall[1].id[1] \in DeletedIds
  /\ lastCall[1].result = <<FALSE>>
  /\ AllEntries # {}

\* the value the updates of an entry leave in column f: that of the latest
\* update that sets f, that of create when none does
RECURSIVE LatestValue(_, _, _)
LatestValue(entry, f, n) ==
  IF n = 0 THEN entry.created[f]
  ELSE IF f \in DOMAIN entry.updates[n] THEN entry.updates[n][f]
  ELSE LatestValue(entry, f, n - 1)

ColumnsSet(entry) ==
  DOMAIN entry.created
    \cup UNION {DOMAIN entry.updates[n] : n \in 1..Len(entry.updates)}

\* C26: whatever other calls come between and after them, the updates of an
\* id lose no write: the stored entity has, in every column, the value of the
\* latest update that set it (of create when none did), and the id and
\* createdAt that create gave it.
C26_UpdatesLoseNoWrite ==
  \A k \in 1..Len(ledger) :
    ~ledger[k].deleted =>
      LET entry == ledger[k]
          entity == MapGet(storage[entry.collection], entry.id)
      IN /\ entity # Undefined
         /\ DOMAIN entity = ColumnsSet(entry)
         /\ \A f \in ColumnsSet(entry) :
              entity[f] = LatestValue(entry, f, Len(entry.updates))
         /\ entity.id = entry.created.id
         /\ entity.createdAt = entry.created.createdAt

\* two updates of one id with a create and a delete of another id between
C26_Witness ==
  /\ Len(ledger) = 2
  /\ Len(ledger[1].updates) = 2
  /\ ledger[2].deleted
  /\ LastOp("update")
  /\ lastCall[1].id = <<ledger[1].id>>

\* ========================================================================
\* Claims about the end of an upload (checked under SpecUploadLive and
\* SpecUpload)
\* ========================================================================
\* the records parseGedcomData returned, or the data lines of the CSV file
ParsedRecords(up) ==
  IF up.kind = "gedcom" THEN Len(up.members)
  ELSE IF up.lines = <<>> THEN 0 ELSE Len(up.lines) - 1

\* the handler of u waits for a geocoding call that has not returned
AwaitsGeocoder(u) ==
  /\ uploads[u].pc = "geocoding"
  /\ geoCalls[u][Len(geoCalls[u])].outcome = "pending"

\* res.json is not called again once the request has its response
ResponseKept ==
  \A u \in Uploads :
    uploads[u].response # <<>> => uploads'[u].response = uploads[u].response

\* C27: every upload request is eventually answered unless from some point on
\* it waits for ever for one geocoding call; it is answered once, and makes at
\* most two geocoding calls per parsed record.
C27_UploadAnsweredOnce ==
  /\ \A u \in Uploads : <>Answered(u) \/ <>[]AwaitsGeocoder(u)
  /\ [][ResponseKept]_vars
  /\ [](\A u \in Uploads :
          /\ Len(geoCalls[u]) <= 2 * ParsedRecords(uploads[u])
          /\ Answered(u) <=> Len(uploads[u].response) = 1)

\* an upload answered with success after the two calls of each of its records
\* returned, one of them without a match
C27_Witness ==
  \E u \in Uploads :
    /\ Succeeded(u)
    /\ ParsedRecords(uploads[u]) >= 1
    /\ Len(geoCalls[u]) = 2 * ParsedRecords(uploads[u])
    /\ \E k \in 1..Len(geoCalls[u]) : geoCalls[u][k].outcome # "match"

\* C28: whenever an upload request that carried a file has been answered
\* (with success, with 400 or with 500), the uploaded temporary file has been
\* deleted.
C28_AnsweredUploadFileDeleted ==
  \A u \in Uploads :
    (Answered(u) /\ uploads[u].file # <<>>) => ~uploads[u].onDisk

\* ========================================================================
\* Claims about the home page (checked under SpecHome)
\* ========================================================================
\* the markers that are layers of the map
MarkersOnMap == SelectSeq(mapLayers, LAMBDA layer : layer.kind = "marker")

\* one marker for each location that passes the timeline filter
MarkersDue ==
  LET due == FilteredLocations(homeLocations, timelineYear)
  IN [k \in 1..Len(due) |-> Marker(due[k])]

\* the markers are where the layer and the filter want them
MarkersAgree ==
  IF layerVisibility.familyLocations
  THEN MarkersOnMap = MarkersDue
  ELSE MarkersOnMap = <<>>

\* a layer toggle, a timeline change or a location update
MapInputChanged ==
  \/ layerVisibility' # layerVisibility
  \/ timelineYear' # timelineYear
  \/ homeLocations' # homeLocations

\* C29: after any sequence of layer toggles, timeline changes and location
\* updates, the markers on the map are exactly those of the locations that
\* pass the timeline filter when the familyLocations layer is visible, and
\* there is no marker on the map when that layer is switched off.
C29_MarkersFollowFilterAndLayer == [][MapInputChanged => MarkersAgree']_vars

====
